---------------------------- MODULE Spec2Model ----------------------------
(***************************************************************************)
(* A model of the pooled cache-manager Redis store (redisStore): the       *)
(* facade operations get / set / del / reset / ttl / keys, the connection  *)
(* pool they borrow from, the JSON + gzip codec they apply, and the Redis  *)
(* server they talk to (GET, SET, SETEX, DEL, MULTI/EXEC, FLUSHDB, TTL,    *)
(* SCAN), with every asynchronous hop a separate step.                     *)
(***************************************************************************)
EXTENDS Integers, Sequences, FiniteSets, TLC

(***************************************************************************)
(* Bounds of the model.                                                    *)
(***************************************************************************)
\* the largest ttl (in clock ticks) a caller or the configuration asks for
MaxTtl == 2
\* the number of connections the pool may hold (its max setting)
PoolMax == 2
\* the server answers cursor '0' at the latest on this SCAN step of a call
MaxScanSteps == 2

\* the invocation slots: at most this many facade calls are in flight at once
Ops == {"op1", "op2"}
\* the patterns keys() is called with
Patterns == {"*", "f*"}

(***************************************************************************)
(* JavaScript values, as tagged tuples.                                    *)
(***************************************************************************)
Str(s) == <<"string", s>>
Num(n) == <<"number", n>>
Arr(seq) == <<"array", seq>>
JSError(kind, what) == <<"error", kind, what>>
Fn == <<"function">>
Obj(scanCount) == <<"object", scanCount>>
Null == <<"null">>
Undefined == <<"undefined">>
NaN == <<"NaN">>

\* the decimal texts of the numbers in use, as <<text, number>>
Numerals ==
  {<<"0", 0>>, <<"1", 1>>, <<"2", 2>>, <<"5", 5>>, <<"6380", 6380>>}
\* String(n) of a number
NumberText(n) ==
  IF \E d \in Numerals : d[2] = n
  THEN (CHOOSE d \in Numerals : d[2] = n)[1] ELSE "<number>"
\* parseInt(v, 10): the number a decimal text denotes, NaN for anything else
ParseInt(v) ==
  IF v[1] = "string" /\ \E d \in Numerals : d[1] = v[2]
  THEN Num((CHOOSE d \in Numerals : d[1] = v[2])[2]) ELSE NaN

\* the values callers pass to set()
Values == {Str("bar"), Null, Undefined, NaN}

\* String(value), as used by 'value cannot be ' + value
JsString(v) ==
  CASE v[1] = "string" -> v[2]
    [] v[1] = "number" -> NumberText(v[2])
    [] v[1] = "null" -> "null"
    [] v[1] = "undefined" -> "undefined"
    [] v[1] = "NaN" -> "NaN"
    [] OTHER -> "object"

(***************************************************************************)
(* The codec: JSON.stringify / JSON.parse and zlib.gzip / zlib.gunzip.     *)
(* A stored payload is <<"text", t>> (the JSON text t) or <<"gzip", t>>    *)
(* (the gzip stream of t).                                                 *)
(***************************************************************************)
Quote(s) == "\"" \o s \o "\""

\* the strings whose JSON text the model can tell apart
JsonStrings == {"bar", "undefined", "FooBarString", ""}

\* JSON.stringify(value): a JSON text, or Undefined when the value has none
JSONstringify(v) ==
  CASE v[1] = "string" -> Str(Quote(v[2]))
    [] v[1] = "number" -> Str(NumberText(v[2]))
    [] v[1] = "null" -> Str("null")
    [] v[1] = "NaN" -> Str("null")
    [] OTHER -> Undefined

\* JSON.parse(text): [err |-> FALSE, val |-> v] or [err |-> TRUE, val |-> e].
\* A null argument is converted to the text 'null' first.
JSONparse(t) ==
  IF t = Null \/ t = Str("null") THEN [err |-> FALSE, val |-> Null]
  ELSE IF t[1] = "string" /\ \E s \in JsonStrings : t[2] = Quote(s)
       THEN [err |-> FALSE,
             val |-> Str(CHOOSE s \in JsonStrings : t[2] = Quote(s))]
       ELSE IF ParseInt(t) # NaN THEN [err |-> FALSE, val |-> ParseInt(t)]
       ELSE [err |-> TRUE, val |-> JSError("SyntaxError", "JSON.parse")]

\* what the client hands to JSON.parse / gunzip for a stored payload p: the
\* text itself, or the undecodable bytes of a gzip stream
Gzip(text) == <<"gzip", text>>
Text(text) == <<"text", text>>
IsGzip(p) == p[1] = "gzip"

\* zlib.gunzip(payload): the text of a gzip stream, an error for anything else
Gunzip(p) ==
  IF IsGzip(p) THEN [err |-> FALSE, val |-> Str(p[2])]
  ELSE [err |-> TRUE, val |-> JSError("Error", "incorrect header check")]

\* the string a reply payload reads as when it is not gunzipped
AsString(p) == IF IsGzip(p) THEN Str("<gzip bytes>") ELSE Str(p[2])


(***************************************************************************)
(* Option objects.  An absent property is <<>>, a present one <<value>>.   *)
(* A compress setting is the boolean <<"true">> / <<"false">> or a policy  *)
(* object <<"gzip", level>> ({type: 'gzip', params: {level: level}}).      *)
(***************************************************************************)
Absent == <<>>
Options(ttl, compress) == [ttl |-> ttl, compress |-> compress]
NoOptions == Options(Absent, Absent)
JsTrue == <<"true">>
JsFalse == <<"false">>
Z_BEST_SPEED == 1
compressDefault == <<"gzip", Z_BEST_SPEED>>

\* JavaScript truthiness of a property that holds a number (a ttl)
TruthyNumber(p) == p # Absent /\ p[1] # 0
\* JavaScript truthiness of a property that holds a compress setting
TruthySetting(p) == p # Absent /\ p[1] # JsFalse

\* JavaScript truthiness of a value
Truthy(v) ==
  CASE v[1] \in {"undefined", "null", "NaN", "false"} -> FALSE
    [] v[1] = "number" -> v[2] # 0
    [] v[1] = "string" -> v[2] # ""
    [] OTHER -> TRUE

(***************************************************************************)
(* The configuration.  args holds url, host, port, db, auth_pass, password *)
(* and detect_buffers as values (Undefined when absent), ttl and compress  *)
(* as properties.  A url that is a string is <<"url", u>>, u being what    *)
(* redisUrl.parse makes of it: whether it parses, and the hostname, port,  *)
(* database, password and ttl query found in it.                           *)
(***************************************************************************)
Args(url, host, port, db, pass, ttl, compress) ==
  [url |-> url, host |-> host, port |-> port, db |-> db, auth_pass |-> pass,
   password |-> pass, ttl |-> ttl, compress |-> compress,
   detect_buffers |-> Undefined]
Url(hostname, port, database, password, ttl) ==
  <<"url", [parses |-> TRUE, hostname |-> hostname, port |-> port,
            database |-> database, password |-> password, ttl |-> ttl]>>
Unparsable ==
  <<"url", [parses |-> FALSE, hostname |-> Undefined, port |-> Undefined,
            database |-> Undefined, password |-> Undefined, ttl |-> Undefined]>>

\* redisUrl.parse(url): it throws, or returns the parts of the url
redisUrlParse(url) ==
  IF ~url[2].parses THEN [threw |-> TRUE, options |-> url[2]]
  ELSE [threw |-> FALSE, options |-> url[2]]

\* cloneArgs(args): a new object with the own properties of args
cloneArgs(args) == [ref |-> "newArgs", obj |-> args]

\* faulty variant of applyOptionsToArgs: the url fills in only what args
\* leaves out
applyOptionsToArgsKeep(args, options) ==
  LET newArgs == cloneArgs(args)
  IN  [newArgs EXCEPT
         !.obj = [@ EXCEPT
                    !.host = IF Truthy(@) THEN @ ELSE options.hostname,
                    !.port = IF Truthy(@) THEN @ ELSE ParseInt(options.port),
                    !.db = IF Truthy(@) THEN @ ELSE ParseInt(options.database),
                    !.auth_pass = IF Truthy(@) THEN @ ELSE options.password,
                    !.password = IF Truthy(@) THEN @ ELSE options.password,
                    !.ttl = IF @ = Absent /\ Truthy(options.ttl)
                            THEN <<ParseInt(options.ttl)[2]>> ELSE @]]

\* applyOptionsToArgs(args, options)
applyOptionsToArgs(args, options) ==
  LET newArgs == cloneArgs(args)
  IN  [newArgs EXCEPT
         !.obj = [@ EXCEPT !.host = options.hostname,
                           !.port = ParseInt(options.port),
                           !.db = ParseInt(options.database),
                           !.auth_pass = options.password,
                           !.password = options.password,
                           !.ttl = IF Truthy(options.ttl)
                                   THEN <<ParseInt(options.ttl)[2]>> ELSE @]]

\* getFromUrl(args): args itself, or the clone the url was applied to
getFromUrl(args) ==
  IF args.url[1] # "url" THEN [ref |-> "args", obj |-> args]
  ELSE LET parsed == redisUrlParse(args.url)
       IN  IF parsed.threw THEN [ref |-> "args", obj |-> args]
           ELSE applyOptionsToArgs(args, parsed.options)

\* the option objects callers pass to set()
SetOptions ==
  {Options(t, c) : t \in {Absent, <<0>>, <<1>>}, c \in {Absent}}
    \cup {Options(Absent, <<c>>) : c \in {JsTrue, JsFalse}}
\* the option objects callers pass to get()
GetOptions == {Options(Absent, c) : c \in {Absent, <<JsTrue>>, <<JsFalse>>}}
\* the configurations a store is constructed with
Configs ==
  {Args(Undefined, Undefined, Undefined, Undefined, Undefined, t, c) :
     t \in {Absent, <<MaxTtl>>}, c \in {Absent, <<JsTrue>>}}
\* the predicates a store is constructed with: the built-in one, or the
\* tests' override that admits undefined and refuses 'FooBarString'
Predicates == {"default", "custom"}

VARIABLES
  given,             \* the args object as the caller built it
  args,              \* the caller's args object as it is now
  revision,          \* the revision of the store: "acquireDb", "select", "plain", "flag", "coalescing"
  events,            \* what the last step raised at the pool and emitted on self.events
  redisOptions,      \* the effective configuration
  isCacheableValue,  \* which predicate self.isCacheableValue is
  db,                \* the server's selected database: key -> <<>> or <<payload, expiry>>
  pool,              \* connection -> "idle" | "busy"
  ops,               \* slot -> the facade call running in it
  hist,              \* per key, the last write completed with no other write in flight
  racing,            \* per key, whether writes to it have overlapped
  age,               \* per key, the ticks its expiry has counted down since it was written
  workload,          \* how the callers behave: "sequential", "concurrent", "single",
                     \* "scan" or "coalescing"
  requestQueue,      \* the coalescing store's requestQueue: <<key, callbacks>> as inserted
  command_queue,     \* the commands on the coalescing store's connection, oldest first
  gets,              \* the get calls of the coalescing store's callers
  immediate,         \* whether setImmediate(fulfillRequests) is pending
  redisConnError     \* the flag of the revision that records pool errors

vars == <<given, args, revision, events, redisOptions, isCacheableValue, db, pool, ops, hist, racing, age, workload, requestQueue, command_queue, gets, immediate, redisConnError>>

\* the state of the store that coalesces its gets
coalescing == <<requestQueue, command_queue, gets, immediate>>

\* what construction fixes for the life of the store
fixed == <<workload, given, args, revision, redisOptions, isCacheableValue>>

\* the key names callers use: the callers that list keys use a name that
\* reads as an array index
Keys ==
  IF workload = "scan" THEN {"foo", "1"}
  ELSE IF workload = "coalescing" THEN {"foo", "1", "__proto__"}
  ELSE {"foo", "__proto__"}

Conns == 1 .. PoolMax

\* nothing raised, nothing emitted
NoEvents == [raised |-> Absent, emitted |-> <<>>]
\* the step emits nothing on the store's events channel
Quiet == events' = NoEvents


(***************************************************************************)
(* Construction.                                                           *)
(***************************************************************************)
\* redisStore(args) up to the creation of the pool: the object redisOptions
\* names, with its defaults filled in; a boolean true compress setting becomes
\* the default policy
Configure(a) ==
  LET from == getFromUrl(a)
  IN  [from EXCEPT
         !.obj = [@ EXCEPT
                    !.host = IF Truthy(@) THEN @ ELSE Str("127.0.0.1"),
                    !.port = IF Truthy(@) THEN @ ELSE Num(6379),
                    !.db = IF Truthy(@) THEN @ ELSE Num(0),
                    !.detect_buffers = JsTrue,
                    !.compress = IF @ = <<JsTrue>> THEN <<compressDefault>> ELSE @]]
\* redisOptions once redisStore(args) has run
Construct(a) == Configure(a).obj
\* the caller's args object once redisStore(args) has run: redisOptions when
\* that is the same object, else as it was
ArgsAfter(a) ==
  IF Configure(a).ref = "args" THEN Configure(a).obj ELSE a

\* faulty variant of IsCacheableValue: the built-in predicate is '!!value'
IsCacheableValueTruthy(value) ==
  IF isCacheableValue = "custom"
  THEN IF value = Undefined THEN TRUE
       ELSE IF value = Str("FooBarString") THEN FALSE
       ELSE Truthy(value)
  ELSE Truthy(value)

\* self.isCacheableValue: the built-in predicate, or the one given in args
IsCacheableValue(value) ==
  IF isCacheableValue = "custom"
  THEN IF value = Undefined THEN TRUE
       ELSE IF value = Str("FooBarString") THEN FALSE
       ELSE value # Undefined /\ value # Null
  ELSE value # Undefined /\ value # Null

(***************************************************************************)
(* The calls in flight.                                                    *)
(***************************************************************************)
Unknown == <<"unknown">>
NoCall ==
  [kind |-> "none", key |-> "", keys |-> <<>>, value |-> Undefined,
   options |-> NoOptions, pattern |-> "", pc |-> "idle", conn |-> 0,
   ttl |-> Absent, compress |-> Absent, val |-> Absent, cmds |-> <<>>,
   reply |-> <<>>, keysObj |-> <<>>, steps |-> 0,
   err |-> Absent, result |-> Absent, calls |-> 0, threw |-> FALSE,
   acquired |-> FALSE, releases |-> 0, sentFree |-> FALSE,
   returned |-> {}, db |-> Absent, cb |-> "callback", promise |-> Absent,
   scanCount |-> 0, arguments |-> <<>>, forwarded |-> Absent,
   expect |-> Unknown, pending |-> Unknown, aged |-> 0]

InFlight(op) == op.pc \notin {"idle", "done"}
\* the keys a call may change
Writes(op) ==
  CASE op.kind = "set" -> {op.key}
    [] op.kind = "del" -> IF op.keys = <<>> THEN {op.key}
                          ELSE {op.keys[i] : i \in 1 .. Len(op.keys)}
    [] op.kind = "reset" -> Keys
    [] OTHER -> {}
\* the key a call reads
Reads(op) == IF op.kind \in {"get", "ttl"} THEN {op.key} ELSE {}

\* the write calls in flight that may change key k, other than slot o
WritersOf(k, o) == {w \in Ops \ {o} : InFlight(ops[w]) /\ k \in Writes(ops[w])}

\* what a completed write leaves in hist for key k
Effect(op) ==
  CASE op.kind = "set" -> <<"set", op.value, op.options>>
    [] op.kind = "del" -> <<"del", op.keys>>
    [] OTHER -> <<"reset">>

(***************************************************************************)
(* handleResponse(conn, cb, opts) and the callbacks it ends in.            *)
(***************************************************************************)
\* what the call's cb is: the function the caller gave, the function that
\* settles the promise when the caller gave none ('cb = cb || ...'), or a
\* truthy value that is no function
Completion(cb) ==
  IF ~Truthy(cb) THEN "promise" ELSE IF cb = Fn THEN "callback" ELSE "object"

\* faulty variant of Settle: the promise is settled with the outcome also
\* when the caller gave a callback
SettleAlways(op, err, result) ==
  IF op.promise # Absent THEN op.promise
  ELSE IF err # Absent THEN <<"rejected", err[1]>>
  ELSE IF op.kind \in {"del", "reset"} THEN <<"fulfilled", Str("OK")>>
  ELSE <<"fulfilled", IF result = Absent THEN Undefined ELSE result[1]>>

\* (err, result) => err ? reject(err) : resolve(result), which for del and
\* reset resolves 'OK'; a settled promise stays as it is
Settle(op, err, result) ==
  IF op.cb # "promise" \/ op.promise # Absent THEN op.promise
  ELSE IF err # Absent THEN <<"rejected", err[1]>>
  ELSE IF op.kind \in {"del", "reset"} THEN <<"fulfilled", Str("OK")>>
  ELSE <<"fulfilled", IF result = Absent THEN Undefined ELSE result[1]>>

\* faulty variant of Callback: only a result is reported, an error is dropped
CallbackResult(op, err, result) ==
  IF op.cb = "object"
  THEN [op EXCEPT !.pc = "done", !.threw = TRUE,
                  !.cmds = <<>>, !.reply = <<>>, !.val = Absent, !.keysObj = <<>>]
  ELSE IF err # Absent
  THEN [op EXCEPT !.pc = "done",
                  !.cmds = <<>>, !.reply = <<>>, !.val = Absent, !.keysObj = <<>>]
  ELSE [op EXCEPT !.pc = "done", !.err = err, !.result = result,
                  !.calls = op.calls + 1, !.promise = Settle(op, err, result),
                  !.cmds = <<>>, !.reply = <<>>, !.val = Absent, !.keysObj = <<>>]

\* cb(err, result): the call reports its outcome; calling a cb that is no
\* function throws instead
Callback(op, err, result) ==
  IF op.cb = "object"
  THEN [op EXCEPT !.pc = "done", !.threw = TRUE,
                  !.cmds = <<>>, !.reply = <<>>, !.val = Absent, !.keysObj = <<>>]
  ELSE [op EXCEPT !.pc = "done", !.err = err, !.result = result,
                  !.calls = op.calls + 1, !.promise = Settle(op, err, result),
                  !.cmds = <<>>, !.reply = <<>>, !.val = Absent, !.keysObj = <<>>]

\* pool.release(conn), as the call's bookkeeping sees it
Released(op) == [op EXCEPT !.releases = op.releases + 1]

\* faulty variant of ParseAndCallback: the stored text is handed back unparsed
ParseAndCallbackText(op, text) == Callback(op, Absent, <<text>>)

\* the JSON.parse step of handleResponse and of the gunzip callback
ParseAndCallback(op, text) ==
  LET parsed == JSONparse(text)
  IN  IF parsed.err THEN Callback(op, <<parsed.val>>, Absent)
      ELSE Callback(op, Absent, <<parsed.val>>)

\* faulty variant of HandleResponse: 'if (opts.compress)' without the
\* 'result &&' guard, so the null of a missing key goes to gunzip
HandleResponseNoGuard(op, reply) ==
  LET rel == Released(op)
  IN  IF reply.err # Absent THEN Callback(rel, reply.err, Absent)
      ELSE IF op.kind = "get"
           THEN IF TruthySetting(op.compress)
                THEN [rel EXCEPT !.pc = "gunzip", !.val = <<reply.res>>]
                ELSE ParseAndCallback(rel,
                       IF reply.res = Null THEN Null ELSE AsString(reply.res))
           ELSE Callback(rel, Absent, <<reply.res>>)

\* faulty variant of HandleResponse: cb is called first, and the connection
\* is still the call's while cb runs
HandleResponseLate(op, reply) ==
  IF reply.err # Absent THEN Callback(op, reply.err, Absent)
  ELSE IF op.kind = "get"
       THEN IF reply.res # Null /\ TruthySetting(op.compress)
            THEN [op EXCEPT !.pc = "gunzip", !.val = <<reply.res>>]
            ELSE ParseAndCallback(op,
                   IF reply.res = Null THEN Null ELSE AsString(reply.res))
       ELSE Callback(op, Absent, <<reply.res>>)

\* the function handleResponse returns, applied to reply (err, result);
\* opts.parse is set by get alone
HandleResponse(op, reply) ==
  LET rel == Released(op)
  IN  IF reply.err # Absent THEN Callback(rel, reply.err, Absent)
      ELSE IF op.kind = "get"
           THEN IF reply.res # Null /\ TruthySetting(op.compress)
                THEN [rel EXCEPT !.pc = "gunzip", !.val = <<reply.res>>]
                ELSE ParseAndCallback(rel,
                       IF reply.res = Null THEN Null ELSE AsString(reply.res))
           ELSE Callback(rel, Absent, <<reply.res>>)

\* faulty variant of GunzipCallback: the gunzipped text is handed back unparsed
GunzipCallbackRaw(op) ==
  LET gz == Gunzip(op.val[1])
  IN  IF gz.err THEN Callback(op, <<gz.val>>, Absent)
      ELSE Callback(op, Absent, <<gz.val>>)

\* the callback of zlib.gunzip in handleResponse
GunzipCallback(op) ==
  LET gz == Gunzip(op.val[1])
  IN  IF gz.err THEN Callback(op, <<gz.val>>, Absent)
      ELSE ParseAndCallback(op, gz.val)


(***************************************************************************)
(* The server.                                                             *)
(***************************************************************************)
NoEntry == <<>>
\* the errors the pool, the server and zlib report
AcquireError == JSError("Error", "acquire")
ReplyError == JSError("ReplyError", "ERR")
ZlibError == JSError("Error", "zlib")
OkReply(res) == [err |-> Absent, res |-> res]
ErrReply(e) == [err |-> <<e>>, res |-> Null]

\* glob matching of the patterns in use
Match(pattern, k) == pattern = "*" \/ (pattern = "f*" /\ k \in {"foo", "far", "faz"})

\* the keys a command changes
Touched(cmd) ==
  CASE cmd[1] \in {"SET", "SETEX", "DEL"} -> {cmd[2]}
    [] cmd[1] = "EXEC" -> {cmd[2][i] : i \in 1 .. Len(cmd[2])}
    [] cmd[1] = "FLUSHDB" -> Keys
    [] OTHER -> {}

\* the server runs one command against database d: the new database and the reply
Exec(cmd, d) ==
  CASE cmd[1] = "GET" ->
         [db |-> d,
          reply |-> OkReply(IF d[cmd[2]] = NoEntry THEN Null ELSE d[cmd[2]][1])]
    [] cmd[1] = "SET" ->
         [db |-> [d EXCEPT ![cmd[2]] = <<cmd[3], 0>>], reply |-> OkReply(Str("OK"))]
    [] cmd[1] = "SETEX" ->
         IF cmd[3] > 0
         THEN [db |-> [d EXCEPT ![cmd[2]] = <<cmd[4], cmd[3]>>],
               reply |-> OkReply(Str("OK"))]
         ELSE [db |-> d,
               reply |-> ErrReply(JSError("ReplyError", "ERR invalid expire time"))]
    [] cmd[1] = "DEL" ->
         [db |-> [d EXCEPT ![cmd[2]] = NoEntry],
          reply |-> OkReply(Num(IF d[cmd[2]] = NoEntry THEN 0 ELSE 1))]
    [] cmd[1] = "EXEC" ->
         [db |-> [k \in Keys |-> IF k \in Touched(cmd) THEN NoEntry ELSE d[k]],
          reply |-> OkReply(Arr([i \in 1 .. Len(cmd[2]) |->
                                   IF d[cmd[2][i]] = NoEntry THEN 0 ELSE 1]))]
    [] cmd[1] = "FLUSHDB" ->
         [db |-> [k \in Keys |-> NoEntry], reply |-> OkReply(Str("OK"))]
    [] cmd[1] = "TTL" ->
         [db |-> d,
          reply |-> OkReply(Num(IF d[cmd[2]] = NoEntry THEN -2
                                ELSE IF d[cmd[2]][2] = 0 THEN -1
                                ELSE d[cmd[2]][2]))]

\* the sequences without repetition over the set S: what one SCAN step may return
Batches(S) ==
  {b \in UNION {[1 .. n -> S] : n \in 0 .. Cardinality(S)} :
     \A i, j \in DOMAIN b : i # j => b[i] # b[j]}

(***************************************************************************)
(* The facade: what each call does once connect() hands it a connection.   *)
(***************************************************************************)
\* faulty variant of Send: the connection goes back to the pool as soon as
\* the command is handed to it
SendAndRelease(op, cmd) ==
  [op EXCEPT !.pc = "sent", !.cmds = Append(op.cmds, cmd),
             !.releases = op.releases + 1, !.sentFree = op.releases > 0]

\* conn.<command>(...): the command goes out on the call's connection
Send(op, cmd) ==
  [op EXCEPT !.pc = "sent", !.cmds = Append(op.cmds, cmd),
             !.sentFree = op.sentFree \/ op.releases > 0]

\* faulty variant of SetTtl: 'options.ttl || redisOptions.ttl', which takes a
\* ttl of 0 for an omitted one
SetTtlOr(options) ==
  IF TruthyNumber(options.ttl) THEN options.ttl ELSE redisOptions.ttl

\* the ttl of a set: options.ttl when it is given (0 included), else the default
SetTtl(options) ==
  IF TruthyNumber(options.ttl) \/ options.ttl = <<0>>
  THEN options.ttl ELSE redisOptions.ttl

\* faulty variant of ResolveCompress: 'options.compress || redisOptions.compress',
\* which takes an explicit false for an omitted setting
ResolveCompressOr(options) ==
  IF TruthySetting(options.compress) THEN options.compress
  ELSE redisOptions.compress

\* the compress setting of a get or set: options.compress when it is given
\* (false included), else the store's
ResolveCompress(options) ==
  IF TruthySetting(options.compress) \/ options.compress = <<JsFalse>>
  THEN options.compress ELSE redisOptions.compress

\* (compress === true) ? compressDefault : compress
Policy(compress) ==
  IF compress = <<JsTrue>> THEN <<compressDefault>> ELSE compress

\* faulty variant of Persist: success is reported at once, no command sent
PersistLost(op, pErr, pVal) ==
  IF pErr # Absent THEN Callback(op, pErr, Absent)
  ELSE Callback(Released(op), Absent, <<Str("OK")>>)

\* faulty variant of Persist: always SET, never SETEX
PersistNoExpiry(op, pErr, pVal) ==
  IF pErr # Absent THEN Callback(op, pErr, Absent)
  ELSE Send(op, <<"SET", op.key, pVal>>)

\* persist(pErr, pVal) of set
Persist(op, pErr, pVal) ==
  IF pErr # Absent THEN Callback(op, pErr, Absent)
  ELSE IF TruthyNumber(op.ttl)
       THEN Send(op, <<"SETEX", op.key, op.ttl[1], pVal>>)
       ELSE Send(op, <<"SET", op.key, pVal>>)

\* faulty variant of SetVal: JSON.stringify(value) alone, so a value without
\* JSON text goes out as the text 'undefined'
SetValBare(value) ==
  IF JSONstringify(value) = Undefined THEN "undefined"
  ELSE JSONstringify(value)[2]

\* JSON.stringify(value) || '"undefined"'
SetVal(value) ==
  IF JSONstringify(value) = Undefined THEN Quote("undefined")
  ELSE JSONstringify(value)[2]

\* faulty variant of DelCommands: one DEL round trip per key of an array
DelCommandsEach(op) ==
  IF op.keys # <<>> THEN [i \in 1 .. Len(op.keys) |-> <<"DEL", op.keys[i]>>]
  ELSE << <<"DEL", op.key>> >>

\* the command(s) of del: one MULTI ... EXEC batch for an array, one DEL for a key
DelCommands(op) ==
  IF op.keys # <<>> THEN << <<"EXEC", op.keys>> >> ELSE << <<"DEL", op.key>> >>

\* the object getClient hands to its caller: the connection and done()
Client(conn) == <<"client", conn>>

\* the body of the connect callback of each operation, without error
OnConnect(op) ==
  CASE op.kind = "get" -> Send(op, <<"GET", op.key>>)
    [] op.kind = "set" ->
         IF TruthySetting(op.compress)
         THEN [op EXCEPT !.pc = "gzip", !.val = <<SetVal(op.value)>>]
         ELSE Persist(op, Absent, Text(SetVal(op.value)))
    [] op.kind = "del" ->
         [op EXCEPT !.pc = "sent", !.cmds = DelCommands(op)]
    [] op.kind = "reset" -> Send(op, <<"FLUSHDB">>)
    [] op.kind = "ttl" -> Send(op, <<"TTL", op.key>>)
    [] op.kind = "keys" -> Send(op, <<"SCAN", "0", op.pattern, op.scanCount>>)
    [] op.kind = "getClient" -> Callback(op, Absent, <<Client(op.conn)>>)

\* keysObj[key] = 1 on a plain object: a new property goes last, an existing
\* one keeps its place, and '__proto__' names no own property
ObjSet(obj, k) ==
  IF k = "__proto__" \/ \E i \in 1 .. Len(obj) : obj[i] = k THEN obj
  ELSE Append(obj, k)

RECURSIVE ObjSetAll(_, _)
ObjSetAll(obj, ks) ==
  IF ks = <<>> THEN obj ELSE ObjSetAll(ObjSet(obj, Head(ks)), Tail(ks))

\* the array-index property names the model can tell apart, in ascending order
IndexNames == <<"0", "1", "2">>
IsIndexName(k) == \E i \in 1 .. Len(IndexNames) : IndexNames[i] = k
\* Object.keys(obj): array-index names ascending, then the others as inserted
ObjectKeys(obj) ==
  SelectSeq(IndexNames, LAMBDA n : \E i \in 1 .. Len(obj) : obj[i] = n)
    \o SelectSeq(obj, LAMBDA k : ~IsIndexName(k))

\* faulty variant of ScanCallback: the cursor of the reply is not looked at,
\* and the call completes with the first batch
ScanCallbackOnce(op) ==
  IF op.reply.err # Absent
  THEN [Callback(Released(op), op.reply.err, Absent) EXCEPT !.threw = TRUE]
  ELSE LET merged == [op EXCEPT !.keysObj = ObjSetAll(op.keysObj, op.reply.res[2])]
       IN  Callback(Released(merged), Absent, <<Arr(ObjectKeys(merged.keysObj))>>)

\* faulty variant of ScanCallback: a failed step is tried again from the start
ScanCallbackRetry(op) ==
  IF op.reply.err # Absent
  THEN Send(op, <<"SCAN", "0", op.pattern, op.scanCount>>)
  ELSE LET nextCursorId == op.reply.res[1]
           merged == [op EXCEPT !.keysObj = ObjSetAll(op.keysObj, op.reply.res[2])]
       IN  IF nextCursorId # "0"
           THEN Send(merged, <<"SCAN", nextCursorId, op.pattern, op.scanCount>>)
           ELSE Callback(Released(merged), Absent,
                         <<Arr(ObjectKeys(merged.keysObj))>>)

\* faulty variant of ScanCallback: a failed step releases the connection and
\* the scan goes on from the start on the connection it gave back
ScanCallbackOn(op) ==
  IF op.reply.err # Absent
  THEN Send(Released(op), <<"SCAN", "0", op.pattern, op.scanCount>>)
  ELSE LET nextCursorId == op.reply.res[1]
           merged == [op EXCEPT !.keysObj = ObjSetAll(op.keysObj, op.reply.res[2])]
       IN  IF nextCursorId # "0"
           THEN Send(merged, <<"SCAN", nextCursorId, op.pattern, op.scanCount>>)
           ELSE Callback(Released(merged), Absent,
                         <<Arr(ObjectKeys(merged.keysObj))>>)

\* the callback of conn.scan in nextBatch
ScanCallback(op) ==
  IF op.reply.err # Absent
  THEN [Callback(Released(op), op.reply.err, Absent) EXCEPT !.threw = TRUE]
  ELSE LET nextCursorId == op.reply.res[1]
           merged == [op EXCEPT !.keysObj = ObjSetAll(op.keysObj, op.reply.res[2])]
       IN  IF nextCursorId # "0"
           THEN Send(merged, <<"SCAN", nextCursorId, op.pattern, op.scanCount>>)
           ELSE Callback(Released(merged), Absent,
                         <<Arr(ObjectKeys(merged.keysObj))>>)


(***************************************************************************)
(* Bookkeeping shared by the actions.                                      *)
(***************************************************************************)
\* the call in slot o becomes new: the pool sees its release, and the history
\* of each key it may have changed is brought up to date when it completes
Step(o, new) ==
  LET old == ops[o]
      ws == IF InFlight(old) /\ new.pc = "done" THEN Writes(old) ELSE {}
  IN  /\ ops' = [ops EXCEPT ![o] = new]
      /\ pool' = IF new.releases > old.releases /\ old.conn # 0
                 THEN [pool EXCEPT ![old.conn] = "idle"] ELSE pool
      /\ hist' = [k \in Keys |->
                    IF k \notin ws THEN hist[k]
                    ELSE IF racing[k] THEN Unknown
                    ELSE IF new.err = Absent THEN Effect(old)
                    ELSE hist[k]]
      /\ racing' = [k \in Keys |->
                      IF k \in ws THEN racing[k] /\ WritersOf(k, o) # {}
                      ELSE racing[k]]

\* a call starts in the idle slot o
Issue(o, call) ==
  LET ws == IF InFlight(call) THEN Writes(call) ELSE {}
      writer(k) == CHOOSE w \in WritersOf(k, o) : TRUE
      expect(k) == IF racing[k] THEN Unknown ELSE hist[k]
      pending(k) ==
        IF WritersOf(k, o) = {} THEN <<"none">>
        ELSE IF Cardinality(WritersOf(k, o)) = 1 /\ ~racing[k]
             THEN Effect(ops[writer(k)]) ELSE Unknown
      mine == IF Reads(call) = {} THEN call
              ELSE [call EXCEPT !.expect = expect(call.key),
                                !.pending = pending(call.key)]
  IN  /\ ops[o].pc = "idle"
      /\ ops' = [p \in Ops |->
                   IF p = o THEN mine
                   ELSE IF InFlight(ops[p]) /\ Reads(ops[p]) \cap ws # {}
                        THEN [ops[p] EXCEPT !.expect = Unknown, !.pending = Unknown]
                        ELSE ops[p]]
      /\ racing' = [k \in Keys |->
                      racing[k] \/ (k \in ws /\ WritersOf(k, o) # {})]
      /\ Quiet /\ UNCHANGED <<redisConnError, coalescing, fixed, db, pool, hist, age>>

\* connect(cb): the call waits for pool.acquireDb
Connect(call) == [call EXCEPT !.pc = "connect"]

\* the database connect puts the connection on: redisOptions.db handed to
\* pool.acquireDb, or in the revision that selects after pool.acquire, args.db
\* when it is given and else the pool's own
ConnectDb ==
  IF revision = "acquireDb" THEN redisOptions.db
  ELSE IF Truthy(args.db) \/ args.db = Num(0) THEN args.db
  ELSE redisOptions.db

\* Number(options.scanCount) || 100
DefaultScanCount == 100
ScanCount(options) ==
  IF options[2] # Absent /\ options[2][1] # 0 THEN options[2][1]
  ELSE DefaultScanCount

\* the argument permutations of keys(pattern, options, cb)
KeysArguments(pattern, options, cb) ==
  LET opts == IF Truthy(options) THEN options ELSE Obj(Absent)
  IN  IF pattern = Fn
      THEN [pattern |-> Str("*"), options |-> Obj(Absent), cb |-> pattern]
      ELSE IF pattern[1] = "object"
      THEN [pattern |-> Str("*"), options |-> pattern, cb |-> opts]
      ELSE IF opts = Fn
      THEN [pattern |-> pattern, options |-> Obj(Absent), cb |-> opts]
      ELSE [pattern |-> pattern, options |-> opts, cb |-> cb]

(***************************************************************************)
(* The facade calls.                                                       *)
(***************************************************************************)
get(o, key, options, cb) ==
  Issue(o, Connect([NoCall EXCEPT !.kind = "get", !.key = key, !.options = options,
                      !.cb = Completion(cb),
                      !.compress = Policy(ResolveCompress(options))]))

\* faulty variant of set: the value is not put to self.isCacheableValue
setUnchecked(o, key, value, options, cb) ==
  Issue(o, Connect([NoCall EXCEPT !.kind = "set", !.key = key, !.value = value,
                      !.options = options, !.cb = Completion(cb),
                      !.ttl = SetTtl(options),
                      !.compress = Policy(ResolveCompress(options))]))

set(o, key, value, options, cb) ==
  LET call == [NoCall EXCEPT !.kind = "set", !.key = key, !.value = value,
                             !.options = options, !.cb = Completion(cb)]
  IN  IF ~IsCacheableValue(value)
      THEN Issue(o, Callback(call,
                   <<JSError("Error", "value cannot be " \o JsString(value))>>, Absent))
      ELSE Issue(o, Connect([call EXCEPT !.ttl = SetTtl(options),
                               !.compress = Policy(ResolveCompress(options))]))

del(o, key, keys, cb) ==
  Issue(o, Connect([NoCall EXCEPT !.kind = "del", !.key = key, !.keys = keys,
                      !.cb = Completion(cb)]))

reset(o, cb) ==
  Issue(o, Connect([NoCall EXCEPT !.kind = "reset", !.cb = Completion(cb)]))

ttl(o, key, cb) ==
  Issue(o, Connect([NoCall EXCEPT !.kind = "ttl", !.key = key,
                      !.cb = Completion(cb)]))

keys(o, pattern, options, cb) ==
  LET a == KeysArguments(pattern, options, cb)
  IN  Issue(o, Connect([NoCall EXCEPT !.kind = "keys",
                          !.arguments = <<pattern, options, cb>>,
                          !.pattern = JsString(a.pattern),
                          !.scanCount = ScanCount(a.options),
                          !.cb = Completion(a.cb)]))

getClient(o, cb) ==
  Issue(o, Connect([NoCall EXCEPT !.kind = "getClient", !.cb = Completion(cb)]))

(***************************************************************************)
(* The asynchronous steps.                                                 *)
(***************************************************************************)
\* pool.acquireDb calls back with a connection: the first idle one
Acquired(o, c) ==
  /\ ops[o].pc = "connect"
  /\ pool[c] = "idle"
  /\ \A b \in Conns : b < c => pool[b] = "busy"
  /\ ops' = [ops EXCEPT ![o] =
        OnConnect([ops[o] EXCEPT !.conn = c, !.acquired = TRUE, !.db = <<ConnectDb>>])]
  /\ pool' = [pool EXCEPT ![c] = "busy"]
  /\ Quiet /\ UNCHANGED <<redisConnError, coalescing, fixed, db, hist, racing, age>>

\* faulty variant of AcquireFailed: the connect callback drops the error
AcquireFailedSilent(o) ==
  /\ ops[o].pc = "connect"
  /\ Step(o, Callback(ops[o], Absent, Absent))
  /\ Quiet /\ UNCHANGED <<redisConnError, coalescing, fixed, db, age>>

\* pool.acquireDb calls back with an error
AcquireFailed(o) ==
  /\ ops[o].pc = "connect"
  /\ Step(o, Callback(ops[o], <<AcquireError>>, Absent))
  /\ Quiet /\ UNCHANGED <<redisConnError, coalescing, fixed, db, age>>

\* zlib.gzip calls persist back with the compressed value
GzipDone(o) ==
  /\ ops[o].pc = "gzip"
  /\ Step(o, Persist(ops[o], Absent, Gzip(ops[o].val[1])))
  /\ Quiet /\ UNCHANGED <<redisConnError, coalescing, fixed, db, age>>

\* zlib.gzip calls persist back with an error
GzipFailed(o) ==
  /\ ops[o].pc = "gzip"
  /\ Step(o, Persist(ops[o], <<ZlibError>>, Absent))
  /\ Quiet /\ UNCHANGED <<redisConnError, coalescing, fixed, db, age>>

\* the server runs the next command of call o
ServerExec(o) ==
  /\ ops[o].pc = "sent"
  /\ Head(ops[o].cmds)[1] # "SCAN"
  /\ LET cmd == Head(ops[o].cmds)
         r == Exec(cmd, db)
     IN  /\ db' = r.db
         /\ ops' = [ops EXCEPT ![o] =
               [@ EXCEPT !.cmds = Tail(@), !.reply = r.reply, !.steps = @ + 1,
                         !.pc = IF Len(ops[o].cmds) = 1 THEN "reply" ELSE "sent",
                         !.aged = IF cmd[1] \in {"GET", "TTL"}
                                  THEN age[cmd[2]] ELSE @]]
         /\ age' = [k \in Keys |-> IF k \in Touched(cmd) THEN 0 ELSE age[k]]
  /\ Quiet /\ UNCHANGED <<redisConnError, coalescing, fixed, pool, hist, racing>>

\* the server answers one SCAN step of call o with a batch and the next cursor
ServerScan(o, batch, next) ==
  /\ ops[o].pc = "sent"
  /\ Head(ops[o].cmds)[1] = "SCAN"
  /\ next = "0" \/ ops[o].steps + 1 < MaxScanSteps
  /\ ops' = [ops EXCEPT ![o] =
        [@ EXCEPT !.cmds = Tail(@), !.reply = OkReply(<<next, batch>>),
                  !.steps = @ + 1, !.pc = "reply",
                  !.returned = @ \cup {batch[i] : i \in 1 .. Len(batch)}]]
  /\ Quiet /\ UNCHANGED <<redisConnError, coalescing, fixed, db, pool, hist, racing, age>>

\* the server, or the connection, fails the next command of call o
ServerError(o) ==
  /\ ops[o].pc = "sent"
  /\ ops' = [ops EXCEPT ![o] =
        [@ EXCEPT !.cmds = <<>>, !.pc = "reply",
                  !.reply = ErrReply(ReplyError)]]
  /\ Quiet /\ UNCHANGED <<redisConnError, coalescing, fixed, db, pool, hist, racing, age>>

\* the reply reaches the function handleResponse returned
Reply(o) ==
  /\ ops[o].pc = "reply"
  /\ ops[o].kind # "keys"
  /\ Step(o, HandleResponse(ops[o], ops[o].reply))
  /\ Quiet /\ UNCHANGED <<redisConnError, coalescing, fixed, db, age>>

\* the reply of a SCAN step reaches nextBatch's callback
ScanReply(o) ==
  /\ ops[o].pc = "reply"
  /\ ops[o].kind = "keys"
  /\ Step(o, ScanCallback(ops[o]))
  /\ Quiet /\ UNCHANGED <<redisConnError, coalescing, fixed, db, age>>

\* zlib.gunzip calls back
GunzipDone(o) ==
  /\ ops[o].pc = "gunzip"
  /\ Step(o, GunzipCallback(ops[o]))
  /\ Quiet /\ UNCHANGED <<redisConnError, coalescing, fixed, db, age>>

\* faulty variant of DoneForward: done.apply(null, arguments)
DoneForwardAll(arguments) ==
  IF arguments # <<>> /\ arguments[1] = Fn THEN <<arguments>> ELSE Absent

\* what done(done, ...args) calls after the release: its first argument with
\* the remaining ones when that is a function, nothing otherwise
DoneForward(arguments) ==
  IF arguments # <<>> /\ Truthy(arguments[1]) /\ arguments[1] = Fn
  THEN <<Tail(arguments)>> ELSE Absent

\* the caller of getClient calls done(...): pool.release(conn), then the
\* callback it was given
ClientDone(o, arguments) ==
  /\ ops[o].kind = "getClient"
  /\ ops[o].pc = "done"
  /\ ops[o].acquired
  /\ ops[o].releases = 0
  /\ Step(o, [Released(ops[o]) EXCEPT !.arguments = arguments,
                                      !.forwarded = DoneForward(arguments)])
  /\ Quiet /\ UNCHANGED <<redisConnError, coalescing, fixed, db, age>>

\* when the pool reports an error: between calls, and to a single caller
\* also while a command of its call is with the server
MayEmit ==
  \A o \in Ops : ops[o].pc = "idle" \/ (workload = "single" /\ ops[o].pc = "sent")
\* faulty variant of OnPoolError: a second listener re-emits the error again
OnPoolErrorTwice(err) == << <<"redisError", err>>, <<"redisError", err>> >>

\* the handler of pool.on('error'): the error goes out as 'redisError'
OnPoolError(err) == << <<"redisError", err>> >>

\* the pool emits 'error'; its one listener runs within the emit
PoolError(err) ==
  /\ MayEmit
  /\ events' = [raised |-> <<err>>, emitted |-> OnPoolError(err)]
  /\ UNCHANGED <<redisConnError, coalescing, fixed, db, pool, ops, hist, racing, age>>

\* the caller has seen the outcome, and has handed back the client it got
\* from getClient: the slot is free for the next call
Return(o) ==
  /\ ops[o].pc = "done"
  /\ ops[o].kind = "getClient" /\ ops[o].acquired => ops[o].releases > 0
  /\ ops' = [ops EXCEPT ![o] = NoCall]
  /\ Quiet /\ UNCHANGED <<redisConnError, coalescing, fixed, db, pool, hist, racing, age>>

\* one unit of time passes at the server: expiries count down, and a key
\* whose expiry runs out is gone
Tick ==
  /\ \E k \in Keys : db[k] # NoEntry /\ db[k][2] > 0
  /\ db' = [k \in Keys |->
              IF db[k] = NoEntry \/ db[k][2] = 0 THEN db[k]
              ELSE IF db[k][2] = 1 THEN NoEntry
              ELSE <<db[k][1], db[k][2] - 1>>]
  /\ age' = [k \in Keys |->
               IF db[k] # NoEntry /\ db[k][2] > 0 /\ age[k] < MaxTtl
               THEN age[k] + 1 ELSE age[k]]
  /\ Quiet /\ UNCHANGED <<redisConnError, coalescing, fixed, pool, ops, hist, racing>>

(***************************************************************************)
(* The callers.  A sequential caller starts each call from the completion  *)
(* of the one before; concurrent callers have two calls in flight; a       *)
(* single caller is sequential too, and uses every form of every call on   *)
(* stores built from a url.                                                *)
(***************************************************************************)
\* the get calls of the coalescing store that may be waiting at once
Gets == {"g1", "g2"}
\* no call: what a get of the coalescing store is before it is invoked; held
\* collects what its key held since the invocation, and expect is the value a
\* set just before it stored
NoGet ==
  [key |-> "", pc |-> "idle", err |-> Absent, result |-> Absent, calls |-> 0,
   held |-> {}, expect |-> Absent]

\* the slots the callers use
Slots == IF workload = "concurrent" THEN Ops ELSE {"op1"}
\* the values a single caller passes to set()
SingleValues == {Num(0), Str(""), Null, Undefined, Str("FooBarString")}
\* the (key, value, options) a caller passes to set()
SetInputs ==
  IF workload = "sequential"
  THEN ({"foo"} \X Values \X SetOptions)
         \cup {<<"foo", Str("FooBarString"), NoOptions>>,
               <<"__proto__", Str("bar"), NoOptions>>}
  ELSE IF workload = "single"
  THEN ({"foo"} \X SingleValues \X {NoOptions})
         \cup {<<"foo", Num(0), Options(<<1>>, Absent)>>}
  ELSE {<<"foo", Str("bar"), NoOptions>>,
        <<"__proto__", Str("bar"), Options(<<1>>, Absent)>>}
\* the (key, options) a caller passes to get()
GetInputs ==
  IF workload = "sequential"
  THEN ({"foo"} \X GetOptions) \cup {<<"__proto__", NoOptions>>}
  ELSE IF workload = "single"
  THEN {<<"foo", NoOptions>>, <<"foo", Options(Absent, <<JsFalse>>)>>}
  ELSE Keys \X {NoOptions}
\* the operations the caller of slot o uses: everything when sequential, and
\* when concurrent one caller writes while the other reads
MayCall(o, kind) ==
  \/ workload # "concurrent"
  \/ o = "op1" /\ kind \in {"set", "del", "reset"}
  \/ o = "op2" /\ kind \in {"get", "ttl", "keys", "getClient"}
\* the calls whose connection or command may fail: any call when sequential,
\* and the reading caller's when concurrent
MayFail(o) == workload # "concurrent" \/ o = "op2"
\* the errors the pool reports
PoolErrors == {Str("Something unexpected"), JSError("Error", "connect ECONNREFUSED")}
\* the cb arguments of the calls: a function, or none
Callbacks == IF workload = "single" THEN {Fn, Undefined} ELSE {Fn}
\* the single keys a caller passes to del()
DelInputs == IF workload = "sequential" THEN Keys ELSE {"foo"}
\* the keys a caller passes to ttl()
TtlInputs ==
  IF workload = "sequential" THEN Keys
  ELSE IF workload = "single" THEN {"foo"} ELSE {"__proto__"}
\* the (pattern, options, cb) a caller passes to keys()
KeysInputs ==
  IF workload = "sequential" THEN {<<Str(p), Fn, Undefined>> : p \in Patterns}
  ELSE IF workload = "single"
  THEN {<<Str("f*"), Fn, Undefined>>, <<Str("*"), Obj(<<10>>), Fn>>,
        <<Fn, Undefined, Undefined>>, <<Obj(<<10>>), Fn, Undefined>>,
        <<Undefined, Undefined, Undefined>>, <<Str("*"), Undefined, Undefined>>,
        <<Obj(<<10>>), Undefined, Undefined>>}
  ELSE {<<Str("*"), Fn, Undefined>>}
\* the arguments the caller of getClient passes to done()
DoneInputs == {<<>>, <<Fn, Str("bar")>>, <<Str("bar")>>}
\* the arrays of keys del() is called with
KeyLists == {<<"foo", "__proto__">>}

\* the configurations a single caller's store is constructed with: none at
\* all, a full url against conflicting fields, a url that names a host only,
\* and a url that does not parse
SingleConfigs ==
  {Args(Undefined, Undefined, Undefined, Undefined, Undefined, Absent, Absent),
   Args(Url(Str("h"), Str("6380"), Str("2"), Str("secret"), Str("1")),
        Str("test-host"), Num(-78), Num(5), Str("test_pass"), <<MaxTtl>>, <<JsTrue>>),
   Args(Url(Str("h"), Undefined, Undefined, Undefined, Undefined),
        Undefined, Num(-78), Num(5), Str("test_pass"), Absent, Absent),
   Args(Unparsable,
        Str("test-host"), Num(-78), Num(5), Str("test_pass"), <<MaxTtl>>, Absent)}

\* the state after construction, the database empty
Create(configs) ==
  /\ given \in configs
  /\ args = ArgsAfter(given)
  /\ redisOptions = Construct(given)
  /\ events = NoEvents
  /\ isCacheableValue \in Predicates
  /\ db = [k \in Keys |-> NoEntry]
  /\ pool = [c \in Conns |-> "idle"]
  /\ ops = [o \in Ops |-> NoCall]
  /\ hist = [k \in Keys |-> <<"none">>]
  /\ racing = [k \in Keys |-> FALSE]
  /\ age = [k \in Keys |-> 0]
  /\ requestQueue = <<>>
  /\ command_queue = <<>>
  /\ gets = [g \in Gets |-> NoGet]
  /\ immediate = TRUE
  /\ redisConnError = FALSE

\* the stores the sequential and the concurrent callers use
Start == Create(Configs) /\ revision = "acquireDb"

Init == workload = "sequential" /\ Start
InitConcurrent ==
  /\ workload = "concurrent"
  /\ Start
  /\ isCacheableValue = "default"
  /\ redisOptions.ttl = Absent

InitSingle ==
  /\ workload = "single"
  /\ Create(SingleConfigs)
  /\ revision \in {"acquireDb", "select"}
  /\ revision = "select" => given.url # Undefined /\ given.url[2].parses
  /\ isCacheableValue = "custom" => given.url = Undefined

Next ==
  \/ \E o \in Slots, in \in GetInputs, cb \in Callbacks :
       MayCall(o, "get") /\ get(o, in[1], in[2], cb)
  \/ \E o \in Slots, in \in SetInputs, cb \in Callbacks :
       MayCall(o, "set") /\ set(o, in[1], in[2], in[3], cb)
  \/ \E o \in Slots, k \in DelInputs, cb \in Callbacks :
       MayCall(o, "del") /\ del(o, k, <<>>, cb)
  \/ \E o \in Slots, ks \in KeyLists, cb \in Callbacks :
       MayCall(o, "del") /\ del(o, "", ks, cb)
  \/ \E o \in Slots, cb \in Callbacks : MayCall(o, "reset") /\ reset(o, cb)
  \/ \E o \in Slots, k \in TtlInputs, cb \in Callbacks :
       MayCall(o, "ttl") /\ ttl(o, k, cb)
  \/ \E o \in Slots, in \in KeysInputs :
       MayCall(o, "keys") /\ keys(o, in[1], in[2], in[3])
  \/ \E o \in Slots, cb \in Callbacks :
       MayCall(o, "getClient") /\ getClient(o, cb)
  \/ \E o \in Slots, arguments \in DoneInputs : ClientDone(o, arguments)
  \/ \E err \in PoolErrors : PoolError(err)
  \/ \E o \in Slots, c \in Conns : Acquired(o, c)
  \/ \E o \in Slots : MayFail(o) /\ AcquireFailed(o)
  \/ \E o \in Slots : GzipDone(o)
  \/ \E o \in Slots : GzipFailed(o)
  \/ \E o \in Slots : ServerExec(o)
  \/ \E o \in Slots :
       \E batch \in Batches({k \in Keys : db[k] # NoEntry /\ Match(ops[o].pattern, k)}),
          next \in {"0", "17"} : ServerScan(o, batch, next)
  \/ \E o \in Slots : MayFail(o) /\ ServerError(o)
  \/ \E o \in Slots : Reply(o)
  \/ \E o \in Slots : ScanReply(o)
  \/ \E o \in Slots : GunzipDone(o)
  \/ \E o \in Slots : Return(o)
  \/ Tick

\* a caller that starts each call after the previous one completed
Spec == Init /\ [][Next]_vars
\* callers with two calls in flight
SpecConcurrent == InitConcurrent /\ [][Next]_vars

\* what the server and the event loop do for call o once it has a
\* connection: the server answers the command sent, and a callback that is
\* due runs
Progress(o) ==
  \/ GzipDone(o) \/ GzipFailed(o)
  \/ ServerExec(o) \/ ServerError(o)
  \/ \E batch \in Batches({k \in Keys : db[k] # NoEntry /\ Match(ops[o].pattern, k)}),
        next \in {"0", "17"} : ServerScan(o, batch, next)
  \/ Reply(o) \/ ScanReply(o) \/ GunzipDone(o)
\* every command is answered and every due callback runs
Fairness == \A o \in Ops : WF_vars(Progress(o))
\* a single caller, on a server that answers
SpecSingle == InitSingle /\ [][Next]_vars /\ Fairness

\* a caller that stores keys and lists them, on a server that answers
InitScan ==
  /\ workload = "scan"
  /\ Create({Args(Undefined, Undefined, Undefined, Undefined, Undefined, Absent, Absent)})
  /\ revision = "acquireDb"
  /\ isCacheableValue = "default"

NextScan ==
  \/ \E k \in Keys : set("op1", k, Str("bar"), NoOptions, Fn)
  \/ keys("op1", Str("*"), Fn, Undefined)
  \/ \E c \in Conns : Acquired("op1", c)
  \/ ServerExec("op1")
  \/ \E batch \in Batches({k \in Keys : db[k] # NoEntry}), next \in {"0", "17"} :
       ServerScan("op1", batch, next)
  \/ Reply("op1")
  \/ ScanReply("op1")
  \/ Return("op1")

SpecScan == InitScan /\ [][NextScan]_vars

(***************************************************************************)
(* Properties.                                                             *)
(***************************************************************************)
\* the call met a failure of the pool or of a command
Injected(op) == op.err \in {<<AcquireError>>, <<ReplyError>>}
\* the completed calls of one kind that met no such failure
Completed(kind) ==
  {o \in Ops : ops[o].kind = kind /\ ops[o].pc = "done" /\ ~Injected(ops[o])}
\* the ttl a set with these options asks for: the option when given, else the
\* store's default, else none
EffectiveTtl(options) ==
  IF options.ttl # Absent THEN options.ttl ELSE redisOptions.ttl
\* the read of call op came before the expiry asked for by these options
Unexpired(op, options) ==
  ~TruthyNumber(EffectiveTtl(options)) \/ op.aged < EffectiveTtl(options)[1]
\* the read of call op follows a completed set, with nothing else in flight
AfterSet(op) == op.expect[1] = "set" /\ op.pending = <<"none">>
\* the set before call op and call op itself resolve to the same compression
SameCompression(op) == Policy(ResolveCompress(op.expect[3])) = op.compress

\* C1: every call that obtained a connection from the pool has released it
\* exactly once by the time it reports its result, on every exit path.
C1_ReleasedExactlyOnce ==
  \A o \in Ops :
    ops[o].pc = "done" /\ ops[o].acquired /\ ops[o].kind # "getClient"
      => ops[o].releases = 1

\* C2 (as stated): for every value the predicate accepts, a get after a
\* completed set of that value, under the same compression setting, yields a
\* value equal to it.
C2_RoundTripEveryCacheable ==
  \A o \in Completed("get") :
    LET op == ops[o]
    IN  AfterSet(op) /\ SameCompression(op) /\ Unexpired(op, op.expect[3])
          => op.err = Absent /\ op.result = <<op.expect[2]>>

\* C2 (amended): a get after a completed set of a value that JSON represents
\* exactly (here: a string), under the same compression setting and before
\* the key expires, yields a value equal to it, compression on or off; for
\* any accepted value it yields what JSON.parse makes of the value's JSON text.
C2_RoundTripJson ==
  \A o \in Completed("get") :
    LET op == ops[o]
        v == op.expect[2]
    IN  AfterSet(op) /\ SameCompression(op) /\ Unexpired(op, op.expect[3])
          => /\ op.err = Absent
             /\ op.result = <<JSONparse(Str(SetVal(v))).val>>
             /\ v[1] = "string" => op.result = <<v>>

\* C2 witness: a compressed set of 'bar' read back through a compressed get
C2_Witness ==
  \E o \in Completed("get") :
    /\ AfterSet(ops[o]) /\ SameCompression(ops[o])
    /\ TruthySetting(ops[o].compress)
    /\ ops[o].result = <<Str("bar")>>

\* C3: calls started one after the other's completion see each other's
\* effects in issue order: a get after a completed set returns the value set
\* (while it has not expired), a get after a completed del returns null,
\* whichever pooled connection each call ran on.
C3_SequentialOrder ==
  \A o \in Completed("get") :
    LET op == ops[o]
    IN  /\ AfterSet(op) /\ SameCompression(op) /\ Unexpired(op, op.expect[3])
             /\ op.expect[2][1] = "string"
          => op.err = Absent /\ op.result = <<op.expect[2]>>
        /\ op.expect[1] = "del" /\ op.pending = <<"none">>
          => op.err = Absent /\ op.result = <<Null>>

\* C3 witness: the get ran on the second connection of the pool and returned
\* the value of the set completed before it
C3_Witness ==
  \E o \in Completed("get") :
    /\ AfterSet(ops[o])
    /\ ops[o].conn = 2
    /\ ops[o].result = <<ops[o].expect[2]>>

C5_RefusedSet ==
  /\ [](\A o \in Ops :
          ops[o].kind = "set" /\ ~IsCacheableValue(ops[o].value)
            => /\ ops[o].pc = "done"
               /\ ops[o].err = <<JSError("Error",
                                   "value cannot be " \o JsString(ops[o].value))>>
               /\ ops[o].calls = 1
               /\ ~ops[o].acquired /\ ops[o].conn = 0
               /\ ops[o].cmds = <<>> /\ ops[o].steps = 0)
  /\ [][\A o \in Ops :
          ops[o].pc = "idle" /\ ops'[o].kind = "set"
            /\ ~IsCacheableValue(ops'[o].value)
            => db' = db /\ pool' = pool]_vars

\* C5 witness: null was refused while 'foo' held a value
C5_Witness ==
  \E o \in Ops :
    /\ ops[o].kind = "set" /\ ops[o].value = Null /\ ops[o].pc = "done"
    /\ ops[o].err = <<JSError("Error", "value cannot be null")>>
    /\ db["foo"] # NoEntry

\* C6: after a completed set with ttl 0 the key has no expiry, so ttl returns
\* -1 even when the store's default ttl is positive; after a completed set
\* that omits ttl, the key expires as the default says.
C6_TtlZeroIsNoExpiry ==
  \A o \in Completed("ttl") :
    LET op == ops[o]
        def == redisOptions.ttl
    IN  AfterSet(op) =>
          /\ op.expect[3].ttl = <<0>> => op.result = <<Num(-1)>>
          /\ op.expect[3].ttl = Absent /\ def = Absent => op.result = <<Num(-1)>>
          /\ op.expect[3].ttl = Absent /\ def # Absent =>
               op.result = <<Num(IF op.aged < def[1] THEN def[1] - op.aged ELSE -2)>>

\* C6 witness: ttl 0 under a positive default ttl
C6_Witness ==
  \E o \in Completed("ttl") :
    /\ AfterSet(ops[o])
    /\ ops[o].expect[3].ttl = <<0>>
    /\ redisOptions.ttl = <<MaxTtl>>
    /\ ops[o].result = <<Num(-1)>>

\* C7: with a positive effective ttl t (the option when given, else the
\* default) the key is written with expiry t: a ttl read before it runs out
\* is greater than 0 and at most t, and exactly t right after the set; with
\* no effective ttl the key has no expiry.
C7_EffectiveTtl ==
  \A o \in Completed("ttl") :
    LET op == ops[o]
        t == EffectiveTtl(op.expect[3])
    IN  AfterSet(op) =>
          /\ op.err = Absent
          /\ TruthyNumber(t) /\ op.aged < t[1] =>
               /\ op.result[1][2] > 0 /\ op.result[1][2] <= t[1]
               /\ op.aged = 0 => op.result = <<Num(t[1])>>
          /\ ~TruthyNumber(t) => op.result = <<Num(-1)>>

\* C7 witness: the option's ttl, not the larger default, is the expiry
C7_Witness ==
  \E o \in Completed("ttl") :
    /\ AfterSet(ops[o])
    /\ ops[o].expect[3].ttl = <<1>>
    /\ redisOptions.ttl = <<MaxTtl>>
    /\ ops[o].result = <<Num(1)>>

\* C8: a get of a key that is not stored (never set, deleted, or flushed)
\* completes with no error and the value null, compression on or off.
C8_MissingKeyIsNull ==
  \A o \in Completed("get") :
    LET op == ops[o]
    IN  op.expect[1] \in {"none", "del", "reset"} /\ op.pending = <<"none">>
          => op.err = Absent /\ op.result = <<Null>>

\* C8 witness: a compressed get of a key that was flushed
C8_Witness ==
  \E o \in Completed("get") :
    /\ ops[o].expect = <<"reset">>
    /\ TruthySetting(ops[o].compress)
    /\ ops[o].result = <<Null>>

\* C9: del of an array removes the listed keys as one batch: once any of it
\* has run, none of the listed keys is left for another call's command to
\* see, and a get of a listed key after the del completed returns null.
C9_DelBatchAtomic ==
  /\ \A o \in Ops :
       ops[o].kind = "del" /\ ops[o].keys # <<>> /\ InFlight(ops[o])
         /\ ops[o].steps > 0
         => \A k \in Writes(ops[o]) : db[k] = NoEntry
  /\ \A o \in Completed("get") :
       ops[o].expect[1] = "del" /\ ops[o].expect[2] # <<>>
         /\ ops[o].pending = <<"none">>
         => ops[o].err = Absent /\ ops[o].result = <<Null>>

\* C9 witness: the batch removed two stored keys while another call was in
\* flight
C9_Witness ==
  \E o, r \in Ops :
    /\ ops[o].kind = "del" /\ ops[o].pc = "reply"
    /\ ops[o].reply = OkReply(Arr(<<1, 1>>))
    /\ InFlight(ops[r]) /\ ops[r].kind = "get" /\ ops[r].pc = "sent"

\* C10: the list keys() returns holds every key returned by any SCAN step of
\* the call, each exactly once.
C10_EveryScannedKeyOnce ==
  \A o \in Completed("keys") :
    LET op == ops[o]
        list == op.result[1][2]
    IN  op.err = Absent
          => /\ {list[i] : i \in 1 .. Len(list)} = op.returned
             /\ Len(list) = Cardinality(op.returned)

\* the calls whose cb is callable: the caller's function, or the one that
\* settles the promise
Callable(o) == ops[o].cb \in {"callback", "promise"}

C13_OmittedPatternIsStar ==
  \A o \in Ops :
    ops[o].kind = "keys" /\ ops[o].arguments[1][1] # "string"
      => /\ ops[o].pattern = "*"
         /\ ops[o].arguments[1][1] = "object"
              => ops[o].scanCount = ScanCount(ops[o].arguments[1])

C15_PromiseSettles ==
  \A o \in Ops :
    ops[o].pc = "done" /\ ops[o].cb # "callback"
      => /\ ops[o].promise # Absent
         /\ ops[o].err # Absent => ops[o].promise = <<"rejected", ops[o].err[1]>>
         /\ ops[o].err = Absent
              => ops[o].promise =
                   <<"fulfilled",
                     IF ops[o].kind \in {"del", "reset"} THEN Str("OK")
                     ELSE ops[o].result[1]>>

\* C16: a step in which the pool raises an error emits one 'redisError' event
\* that carries that error, and leaves every call, the pool and the database
\* as they were; a step in which the pool raises none emits nothing.
C16_PoolErrorReemitted ==
  [][/\ events'.raised # Absent
          => /\ events'.raised[1] \in PoolErrors
             /\ events'.emitted = << <<"redisError", events'.raised[1]>> >>
             /\ ops' = ops /\ pool' = pool /\ db' = db
     /\ events'.raised = Absent => events'.emitted = <<>>]_vars

\* C16 witness: the pool's error was re-emitted while a call had a command
\* with the server
C16_Witness ==
  \E o \in Ops :
    /\ ops[o].pc = "sent" /\ ops[o].calls = 0 /\ ops[o].promise = Absent
    /\ events.raised = <<Str("Something unexpected")>>
    /\ events.emitted = << <<"redisError", Str("Something unexpected")>> >>

\* the caller's configuration carries a url that parses
UrlParsed == given.url[1] = "url" /\ given.url[2].parses

\* C17: with a url that parses, the effective host, port, database, credential
\* and ttl are the ones the url names, whatever the explicit fields say; with
\* a url that does not parse, they are the explicit fields.
C17_UrlOverrides ==
  LET u == given.url[2]
  IN  /\ UrlParsed
           => /\ u.hostname # Undefined => redisOptions.host = u.hostname
              /\ u.port # Undefined => redisOptions.port = ParseInt(u.port)
              /\ u.database # Undefined => redisOptions.db = ParseInt(u.database)
              /\ redisOptions.auth_pass = u.password
              /\ redisOptions.password = u.password
              /\ u.ttl # Undefined => redisOptions.ttl = <<ParseInt(u.ttl)[2]>>
      /\ given.url = Unparsable
           => /\ redisOptions.host = given.host
              /\ redisOptions.port = given.port
              /\ redisOptions.db = given.db
              /\ redisOptions.auth_pass = given.auth_pass
              /\ redisOptions.password = given.password
              /\ redisOptions.ttl = given.ttl

\* C17 witness: a store built from a full url against conflicting fields has
\* stored a value under the url's ttl
C17_Witness ==
  \E o \in Ops :
    /\ UrlParsed
    /\ given.host = Str("test-host") /\ redisOptions.host = Str("h")
    /\ given.db = Num(5) /\ redisOptions.db = Num(2)
    /\ given.ttl = <<MaxTtl>> /\ redisOptions.ttl = <<1>>
    /\ ops[o].kind = "set" /\ ops[o].pc = "done" /\ ops[o].err = Absent
    /\ ops[o].options = NoOptions /\ ops[o].ttl = <<1>>

\* the database index the configuration asks for: the url's when a url was
\* parsed, else the explicit db, else 0
EffectiveDb ==
  IF UrlParsed
  THEN IF Truthy(ParseInt(given.url[2].database))
       THEN ParseInt(given.url[2].database) ELSE Num(0)
  ELSE IF Truthy(given.db) THEN given.db ELSE Num(0)

\* C18: every call that holds a connection holds one that is on the effective
\* database index.
C18_EffectiveDatabase ==
  \A o \in Ops : ops[o].acquired => ops[o].db = <<EffectiveDb>>

\* C19: after redisStore(args) the caller's args object holds what it held
\* before, with or without a url.
C19_ArgsUntouched == args = given

\* the set in slot o was refused by the predicate
Refused(o) ==
  /\ ops[o].kind = "set" /\ ops[o].pc = "done" /\ ~ops[o].acquired
  /\ ops[o].err = <<JSError("Error", "value cannot be " \o JsString(ops[o].value))>>

\* C20: a store built without a predicate refuses to set exactly null and
\* undefined, and so stores 0 and the empty string; a store built with the
\* tests' predicate refuses exactly what that predicate refuses, null and
\* 'FooBarString', and stores undefined.
C20_CacheablePredicate ==
  \A o \in Ops :
    ops[o].kind = "set"
      => (Refused(o) <=>
            IF isCacheableValue = "default"
            THEN ops[o].value \in {Null, Undefined}
            ELSE ops[o].value \in {Null, Str("FooBarString")})

\* C20 witness: a store with the default predicate has stored 0
C20_Witness ==
  \E o \in Ops :
    /\ isCacheableValue = "default"
    /\ ops[o].kind = "set" /\ ops[o].value = Num(0)
    /\ ops[o].pc = "done" /\ ops[o].err = Absent /\ ops[o].calls = 1
    /\ db[ops[o].key] # NoEntry

\* C21: on a store whose predicate admits undefined, set(k, undefined)
\* completes without error, and a get after it, under the same compression
\* setting and before the key expires, completes without error with the string
\* 'undefined', which is not the null of a missing key; compression on or off.
C21_UndefinedPlaceholder ==
  /\ \A o \in Completed("set") :
       ops[o].value = Undefined /\ ops[o].acquired
         => /\ isCacheableValue = "custom"
            /\ ops[o].err \in {Absent, <<ZlibError>>}
  /\ \A o \in Completed("get") :
       LET op == ops[o]
       IN  AfterSet(op) /\ op.expect[2] = Undefined
             /\ SameCompression(op) /\ Unexpired(op, op.expect[3])
             => /\ op.err = Absent
                /\ op.result = <<Str("undefined")>>
                /\ op.result # <<Null>>

\* C21 witness: undefined was set with compression and read back with it
C21_Witness ==
  \E o \in Completed("get") :
    /\ AfterSet(ops[o]) /\ ops[o].expect[2] = Undefined
    /\ SameCompression(ops[o]) /\ TruthySetting(ops[o].compress)
    /\ ops[o].result = <<Str("undefined")>>

\* the compress setting in force for a call with these options: the option
\* when it is given, else the store's
EffectiveCompress(options) ==
  IF options.compress # Absent THEN options.compress ELSE redisOptions.compress

\* C22: a get or set works under its options.compress when that is given
\* (false included) and under the store's setting otherwise, true standing
\* for the gzip policy at level Z_BEST_SPEED: a set sends a gzip stream exactly
\* when that setting is on, and a get gunzips the reply exactly when it is on.
C22_CompressPolicy ==
  /\ \A o \in Ops :
       LET op == ops[o]
           eff == EffectiveCompress(op.options)
       IN  op.kind \in {"get", "set"} /\ (op.pc = "connect" \/ op.acquired)
             => /\ op.compress = IF eff = <<JsTrue>>
                                 THEN << <<"gzip", Z_BEST_SPEED>> >> ELSE eff
                /\ op.pc = "gzip" => TruthySetting(eff)
                /\ op.pc = "gunzip" => TruthySetting(eff)
                /\ op.kind = "set" /\ op.pc = "sent"
                     => (IsGzip(op.cmds[1][Len(op.cmds[1])]) <=> TruthySetting(eff))
  /\ [][\A o \in Ops :
          ops[o].kind = "get" /\ ops[o].pc = "reply" /\ ops'[o] # ops[o]
            /\ ops[o].reply.err = Absent /\ ops[o].reply.res # Null
            => (ops'[o].pc = "gunzip"
                  <=> TruthySetting(EffectiveCompress(ops[o].options)))]_vars

\* C22 witness: on a store that compresses, a set with compress: false has
\* sent its value uncompressed
C22_Witness ==
  \E o \in Ops :
    /\ TruthySetting(redisOptions.compress)
    /\ ops[o].kind = "set" /\ ops[o].options.compress = <<JsFalse>>
    /\ ops[o].pc = "sent" /\ ~IsGzip(ops[o].cmds[1][Len(ops[o].cmds[1])])

\* the call in slot o holds a connection: it got one and has not released it
Holds(o) == ops[o].acquired /\ ops[o].releases = 0

\* C28: the connection getClient hands to its caller stays busy in the pool,
\* unreleased by the store and held by no other call, until the caller calls
\* done; done releases it to the pool and then calls its first argument, when
\* that is a function, with the remaining arguments.
C28_ClientUntilDone ==
  /\ [](\A o \in Ops :
          ops[o].kind = "getClient" /\ ops[o].pc = "done" /\ Holds(o)
            => /\ ops[o].result = <<Client(ops[o].conn)>>
               /\ pool[ops[o].conn] = "busy"
               /\ ops[o].forwarded = Absent
               /\ \A p \in Ops \ {o} : Holds(p) => ops[p].conn # ops[o].conn)
  /\ [][\A o \in Ops :
          ops[o].kind = "getClient" /\ Holds(o) /\ ~Holds(o)'
            => /\ ops[o].pc = "done" /\ ops'[o].releases = 1
               /\ pool'[ops[o].conn] = "idle"
               /\ ops'[o].forwarded =
                    IF ops'[o].arguments # <<>> /\ ops'[o].arguments[1] = Fn
                    THEN <<Tail(ops'[o].arguments)>> ELSE Absent]_vars

\* C28 witness: while one caller held the client, another call ran on the
\* pool's other connection; then done(cb, 'bar') released the client and
\* called cb('bar')
C28_Witness ==
  \E o \in Ops :
    /\ ops[o].kind = "getClient" /\ ops[o].releases = 1
    /\ ops[o].conn = 2 /\ pool[2] = "idle"
    /\ ops[o].arguments = <<Fn, Str("bar")>>
    /\ ops[o].forwarded = << <<Str("bar")>> >>

\* the call in slot o has a command on its connection, or is about to send one
Uses(o) == ops[o].pc \in {"gzip", "sent", "reply"}

RECURSIVE FirstSeen(_, _)
FirstSeen(seen, batch) ==
  IF batch = <<>> THEN seen
  ELSE FirstSeen(IF \E i \in 1 .. Len(seen) : seen[i] = Head(batch) THEN seen
                 ELSE Append(seen, Head(batch)),
                 Tail(batch))

\* C30: the list keys() hands its callback is ordered by first discovery: the
\* keys the earlier SCAN steps returned, in the order they were first
\* returned, then the new keys of the last step in the order of its batch
C30_DiscoveryOrder ==
  [][\A o \in Ops :
       ops[o].kind = "keys" /\ ops[o].pc = "reply" /\ ops[o].reply.err = Absent
         /\ ops'[o].pc = "done" /\ ops'[o].err = Absent
         => ops'[o].result =
              <<Arr(FirstSeen(ops[o].keysObj, ops[o].reply.res[2]))>>]_vars

(***************************************************************************)
(* The revision of the pooled store without compression and promises: its  *)
(* set stores whatever JSON.stringify gives, and its handleResponse parses  *)
(* a get's reply unguarded.                                                *)
(***************************************************************************)
\* String(arg): the text the redis client sends for a command argument
CommandText(v) == IF v[1] \in {"string", "undefined"} THEN JsString(v) ELSE "object"

\* self.get of that revision: connect, then GET
getPlain(o, key, cb) ==
  Issue(o, Connect([NoCall EXCEPT !.kind = "get", !.key = key,
                      !.cb = Completion(cb)]))

\* self.set of that revision: no value is refused
setPlain(o, key, value, options, cb) ==
  Issue(o, Connect([NoCall EXCEPT !.kind = "set", !.key = key, !.value = value,
                      !.options = options, !.cb = Completion(cb),
                      !.ttl = SetTtl(options)]))

\* the body of the connect callback of get, reset and set in that revision,
\* without error: 'var val = JSON.stringify(value)' goes out as it is
OnConnectPlain(op) ==
  IF op.kind = "get" THEN Send(op, <<"GET", op.key>>)
  ELSE IF op.kind = "reset" THEN Send(op, <<"FLUSHDB">>)
  ELSE Persist(op, Absent, Text(CommandText(JSONstringify(op.value))))

\* pool.acquire calls back with a connection: the first idle one
AcquiredPlain(o, c) ==
  /\ ops[o].pc = "connect"
  /\ pool[c] = "idle"
  /\ \A b \in Conns : b < c => pool[b] = "busy"
  /\ ops' = [ops EXCEPT ![o] =
        OnConnectPlain([ops[o] EXCEPT !.conn = c, !.acquired = TRUE,
                                      !.db = <<ConnectDb>>])]
  /\ pool' = [pool EXCEPT ![c] = "busy"]
  /\ Quiet /\ UNCHANGED <<redisConnError, coalescing, fixed, db, hist, racing, age>>

\* the function handleResponse returns in that revision, applied to reply:
\* release, then 'result = JSON.parse(result)' outside any try, so a text
\* that is no JSON throws out of the reply callback and cb is not called
HandleResponsePlain(op, reply) ==
  LET rel == Released(op)
      parsed == JSONparse(IF reply.res = Null THEN Null ELSE AsString(reply.res))
  IN  IF reply.err # Absent THEN Callback(rel, reply.err, Absent)
      ELSE IF op.kind # "get" THEN Callback(rel, Absent, <<reply.res>>)
      ELSE IF parsed.err
           THEN [rel EXCEPT !.pc = "done", !.threw = TRUE, !.cmds = <<>>,
                            !.reply = <<>>, !.val = Absent]
           ELSE Callback(rel, Absent, <<parsed.val>>)

\* the reply reaches the function handleResponse returned
ReplyPlain(o) ==
  /\ ops[o].pc = "reply"
  /\ Step(o, HandleResponsePlain(ops[o], ops[o].reply))
  /\ Quiet /\ UNCHANGED <<redisConnError, coalescing, fixed, db, age>>

\* the values a caller of that revision passes to set()
PlainValues == {Str("bar"), Num(0), Undefined}

\* a store of that revision, with and without a default ttl
InitPlain ==
  /\ workload = "sequential"
  /\ Create({Args(Undefined, Undefined, Undefined, Undefined, Undefined, t, Absent) :
               t \in {Absent, <<MaxTtl>>}})
  /\ revision = "plain"
  /\ isCacheableValue = "default"

NextPlain ==
  \/ \E k \in Keys : getPlain("op1", k, Fn)
  \/ \E k \in Keys, v \in PlainValues, opts \in {NoOptions, Options(<<1>>, Absent)} :
       setPlain("op1", k, v, opts, Fn)
  \/ \E c \in Conns : AcquiredPlain("op1", c)
  \/ AcquireFailed("op1")
  \/ ServerExec("op1")
  \/ ServerError("op1")
  \/ ReplyPlain("op1")
  \/ Return("op1")
  \/ Tick

\* a caller of that revision that starts each call after the previous one
\* completed
SpecPlain == InitPlain /\ [][NextPlain]_vars

\* the bytes a get was answered with cannot be decoded: they are no gzip
\* stream although the call gunzips, or their text is no JSON
Undecodable(op) ==
  /\ op.reply.err = Absent
  /\ op.reply.res # Null
  /\ IF TruthySetting(op.compress)
     THEN ~IsGzip(op.reply.res) \/ JSONparse(Str(op.reply.res[2])).err
     ELSE JSONparse(AsString(op.reply.res)).err

\* C23: when the bytes stored under a key cannot be decoded, get reports the
\* failure as its error through the callback (it neither throws nor returns a
\* value), once, and the connection has been released once
C23_DecodeFailureReported ==
  [][\A o \in Ops :
       ops[o].kind = "get" /\ ops[o].pc = "reply" /\ Undecodable(ops[o])
         /\ ops'[o].pc = "done"
         => /\ ~ops'[o].threw
            /\ ops'[o].calls = 1
            /\ ops'[o].err # Absent
            /\ ops'[o].result = Absent
            /\ ops'[o].releases = 1]_vars

(***************************************************************************)
(* The store that coalesces its gets: one connection, get calls collected  *)
(* in requestQueue and fetched with one MGET per run of fulfillRequests.   *)
(***************************************************************************)
\* what the pooled store's steps use, which this store leaves alone
pooled == <<events, pool, ops, hist, racing, age, redisConnError>>

\* the property names of requestQueue, as inserted
QueueKeys == [i \in 1 .. Len(requestQueue) |-> requestQueue[i].key]

\* requestQueue[key] names a property requestQueue inherits: the lookup
\* gives Object.prototype, which is truthy and has no push
Inherited(key) == key = "__proto__"

\* addRequest([key], cb): 'requestQueue[key] = requestQueue[key] || []', then
\* push(cb)
addRequest(key, cb) ==
  IF \E i \in 1 .. Len(requestQueue) : requestQueue[i].key = key
  THEN [i \in 1 .. Len(requestQueue) |->
          IF requestQueue[i].key = key
          THEN [requestQueue[i] EXCEPT !.cbs = Append(@, cb)]
          ELSE requestQueue[i]]
  ELSE Append(requestQueue, [key |-> key, cbs |-> <<cb>>])

\* what the server holds under key k: the payload, or null
Stored(k) == IF db[k] = NoEntry THEN Null ELSE db[k][1]

\* JSON.parse(result) of handleResponse, for a reply value
Decode(p) == JSONparse(IF p = Null THEN Null ELSE AsString(p))

\* the command self.set sends at once on the connection
SetCommand(key, value, options) ==
  LET expiry == SetTtl(options)
      val == Text(CommandText(JSONstringify(value)))
  IN  IF TruthyNumber(expiry) THEN <<"SETEX", key, expiry[1], val>>
      ELSE <<"SET", key, val>>

\* conn.<command>(...): the command joins those sent and not yet answered
Sent(cmd) == Append(command_queue, [cmd |-> cmd, reply |-> Absent])

\* a set of key makes what the waiting gets of key were promised uncertain
Overwritten(key) ==
  [g \in Gets |->
     IF gets[g].pc = "queued" /\ gets[g].key = key
     THEN [gets[g] EXCEPT !.expect = Absent] ELSE gets[g]]

\* self.get(key, cb) of call g: addRequest, which throws for an inherited name
getCoalescing(g, key) ==
  /\ gets[g].pc = "idle"
  /\ IF Inherited(key)
     THEN /\ gets' = [gets EXCEPT ![g] = [NoGet EXCEPT !.key = key, !.pc = "threw"]]
          /\ UNCHANGED requestQueue
     ELSE /\ gets' = [gets EXCEPT ![g] =
                 [NoGet EXCEPT !.key = key, !.pc = "queued", !.held = {Stored(key)}]]
          /\ requestQueue' = addRequest(key, g)
  /\ UNCHANGED <<fixed, pooled, db, command_queue, immediate>>

\* self.set(key, value) without callback; one set is on the connection at a time
setCoalescing(key, value) ==
  /\ \A i \in 1 .. Len(command_queue) : command_queue[i].cmd[1] = "MGET"
  /\ command_queue' = Sent(SetCommand(key, value, NoOptions))
  /\ gets' = Overwritten(key)
  /\ UNCHANGED <<fixed, pooled, db, requestQueue, immediate>>

\* self.set(key, value) without callback and self.get(key, cb) of call g
\* right behind it, in the same turn of the event loop
setThenGet(g, key, value) ==
  /\ gets[g].pc = "idle"
  /\ ~Inherited(key)
  /\ \A i \in 1 .. Len(command_queue) : command_queue[i].cmd[1] = "MGET"
  /\ command_queue' = Sent(SetCommand(key, value, NoOptions))
  /\ gets' = [Overwritten(key) EXCEPT ![g] =
        [NoGet EXCEPT !.key = key, !.pc = "queued", !.held = {Stored(key)},
                      !.expect = <<value>>]]
  /\ requestQueue' = addRequest(key, g)
  /\ UNCHANGED <<fixed, pooled, db, immediate>>

\* fulfillRequests runs with requests waiting: one MGET for Object.keys(requestQueue)
fulfillRequests ==
  /\ immediate
  /\ ObjectKeys(QueueKeys) # <<>>
  /\ command_queue' = Sent(<<"MGET", ObjectKeys(QueueKeys)>>)
  /\ immediate' = FALSE
  /\ UNCHANGED <<fixed, pooled, db, requestQueue, gets>>

\* the oldest command the server has not answered
Oldest == CHOOSE i \in 1 .. Len(command_queue) :
            /\ command_queue[i].reply = Absent
            /\ \A j \in 1 .. i - 1 : command_queue[j].reply # Absent

\* the server runs the oldest unanswered command of the connection
ServerRun ==
  /\ \E i \in 1 .. Len(command_queue) : command_queue[i].reply = Absent
  /\ LET cmd == command_queue[Oldest].cmd
     IN  IF cmd[1] = "MGET"
         THEN /\ command_queue' = [command_queue EXCEPT ![Oldest].reply =
                   <<OkReply([j \in 1 .. Len(cmd[2]) |-> Stored(cmd[2][j])])>>]
              /\ UNCHANGED <<db, gets>>
         ELSE /\ db' = Exec(cmd, db).db
              /\ command_queue' = [command_queue EXCEPT ![Oldest].reply =
                   <<Exec(cmd, db).reply>>]
              /\ gets' = [g \in Gets |->
                   IF gets[g].pc = "queued" /\ gets[g].key = cmd[2]
                   THEN [gets[g] EXCEPT !.held = @ \cup {cmd[Len(cmd)]}]
                   ELSE gets[g]]
  /\ UNCHANGED <<fixed, pooled, requestQueue, immediate>>

\* the server, or the connection, fails the MGET
ServerFail ==
  /\ \E i \in 1 .. Len(command_queue) : command_queue[i].reply = Absent
  /\ command_queue[Oldest].cmd[1] = "MGET"
  /\ command_queue' = [command_queue EXCEPT ![Oldest].reply = <<ErrReply(ReplyError)>>]
  /\ UNCHANGED <<fixed, pooled, db, requestQueue, gets, immediate>>

\* the position in keys at which the callback of conn.mget throws: the first
\* one when values is undefined (an error reply), the first whose value
\* JSON.parse rejects otherwise, and past the end when nothing throws
Thrown(names, reply) ==
  IF reply.err # Absent THEN 1
  ELSE IF \E i \in 1 .. Len(names) : Decode(reply.res[i]).err
       THEN CHOOSE i \in 1 .. Len(names) :
              /\ Decode(reply.res[i]).err
              /\ \A j \in 1 .. i - 1 : ~Decode(reply.res[j]).err
       ELSE Len(names) + 1

\* the oldest reply reaches its callback: handleResponse() without cb for a
\* set, which does nothing, and for MGET the callback of fulfillRequests,
\* which takes each key's callbacks out of requestQueue and calls them with
\* values[i], then schedules fulfillRequests again
ReplyArrives ==
  /\ command_queue # <<>>
  /\ Head(command_queue).reply # Absent
  /\ command_queue' = Tail(command_queue)
  /\ LET cmd == Head(command_queue).cmd
         reply == Head(command_queue).reply[1]
     IN  IF cmd[1] # "MGET" THEN UNCHANGED <<requestQueue, gets, immediate>>
         ELSE LET names == cmd[2]
                  stop == Thrown(names, reply)
                  deleted == {names[i] : i \in {j \in DOMAIN names : j <= stop}}
                  at(k) == CHOOSE i \in DOMAIN names : names[i] = k
              IN  /\ requestQueue' = SelectSeq(requestQueue, LAMBDA e : e.key \notin deleted)
                  /\ gets' = [g \in Gets |->
                       IF gets[g].pc = "queued" /\ gets[g].key \in deleted
                            /\ at(gets[g].key) < stop
                       THEN [gets[g] EXCEPT !.pc = "done", !.calls = @ + 1,
                               !.result = <<Decode(reply.res[at(gets[g].key)]).val>>]
                       ELSE gets[g]]
                  /\ immediate' = (stop > Len(names))
  /\ UNCHANGED <<fixed, pooled, db>>

\* the caller of get call g is done with it
Forget(g) ==
  /\ gets[g].pc \in {"done", "threw"}
  /\ gets' = [gets EXCEPT ![g] = NoGet]
  /\ UNCHANGED <<fixed, pooled, db, requestQueue, command_queue, immediate>>

\* the (key, value) the callers pass to set()
CoalescingSets ==
  {<<"foo", Str("bar")>>, <<"foo", Str("FooBarString")>>, <<"1", Str("bar")>>,
   <<"foo", Undefined>>}

\* the state after construction, setImmediate(fulfillRequests) pending
InitCoalescing ==
  /\ workload = "coalescing"
  /\ Create({Args(Undefined, Undefined, Undefined, Undefined, Undefined, Absent, Absent)})
  /\ revision = "coalescing"
  /\ isCacheableValue = "default"

NextCoalescing ==
  \/ \E g \in Gets, k \in Keys : getCoalescing(g, k)
  \/ \E in \in CoalescingSets : setCoalescing(in[1], in[2])
  \/ \E g \in Gets, in \in CoalescingSets : setThenGet(g, in[1], in[2])
  \/ fulfillRequests
  \/ ServerRun
  \/ ServerFail
  \/ ReplyArrives
  \/ \E g \in Gets : Forget(g)

SpecCoalescing == InitCoalescing /\ [][NextCoalescing]_vars

\* the step is the callback of conn.mget running on the oldest reply
MgetReplied ==
  /\ command_queue # <<>>
  /\ Head(command_queue).cmd[1] = "MGET"
  /\ Head(command_queue).reply # Absent
  /\ command_queue' = Tail(command_queue)

\* the get calls waiting on the keys of the MGET whose reply is the oldest
Waiting ==
  {g \in Gets : /\ gets[g].pc = "queued"
                /\ \E i \in DOMAIN Head(command_queue).cmd[2] :
                     Head(command_queue).cmd[2][i] = gets[g].key}

\* C24: every get call issued before fulfillRequests runs is queued for its
\* fetch; the MGET that fulfillRequests sends lists the distinct requested
\* keys once each in the order they were first requested; and every call the
\* fetch serves receives the value this fetch returned for its own key
C24_OneFetchPerTick ==
  /\ [](\A g \in Gets : gets[g].pc # "threw")
  /\ [][immediate /\ ~immediate'
          => /\ command_queue'[Len(command_queue')].cmd = <<"MGET", QueueKeys>>
             /\ \A g \in Gets : gets[g].pc = "queued"
                  => \E i \in DOMAIN QueueKeys : QueueKeys[i] = gets[g].key]_vars
  /\ [][MgetReplied /\ Head(command_queue).reply[1].err = Absent
          => \A g \in Waiting :
               \E i \in DOMAIN Head(command_queue).cmd[2] :
                 /\ Head(command_queue).cmd[2][i] = gets[g].key
                 /\ gets'[g].pc = "done"
                 /\ gets'[g].result =
                      <<Decode(Head(command_queue).reply[1].res[i]).val>>]_vars

\* C25: a get(k) that completes without error returns a value that k held at
\* some instant between the call's invocation and its callback
C25_GetWithinItsInterval ==
  \A g \in Gets :
    gets[g].pc = "done" /\ gets[g].err = Absent
      => gets[g].result \in {<<Decode(p).val>> : p \in gets[g].held}

\* C26: a get(k) issued right behind a set(k, v) without callback, with no
\* later set of k, yields v
C26_SetThenGetYieldsValue ==
  \A g \in Gets :
    gets[g].pc = "done" /\ gets[g].expect # Absent
      => gets[g].err = Absent /\ gets[g].result = gets[g].expect

\* C27: when the MGET fails, every get waiting on it receives the error
\* through its callback, once, and fulfillRequests is scheduled again
C27_FetchErrorReported ==
  [][MgetReplied /\ Head(command_queue).reply[1].err # Absent
       => /\ \A g \in Waiting :
               /\ gets'[g].pc = "done"
               /\ gets'[g].calls = 1
               /\ gets'[g].err = Head(command_queue).reply[1].err
          /\ immediate']_vars

\* the steps of the coalescing store on a server that answers every command
\* it is sent without error
NextAnswered ==
  \/ \E g \in Gets, k \in Keys : getCoalescing(g, k)
  \/ \E in \in CoalescingSets : setCoalescing(in[1], in[2])
  \/ \E g \in Gets, in \in CoalescingSets : setThenGet(g, in[1], in[2])
  \/ fulfillRequests
  \/ ServerRun
  \/ ReplyArrives
  \/ \E g \in Gets : Forget(g)

\* a pending setImmediate callback runs, the server answers the oldest
\* command, and a reply that arrived reaches its callback
FairnessCoalescing ==
  /\ WF_vars(fulfillRequests)
  /\ WF_vars(ServerRun)
  /\ WF_vars(ReplyArrives)

\* the coalescing store on a server that answers
SpecAnswered == InitCoalescing /\ [][NextAnswered]_vars /\ FairnessCoalescing

\* C31: on a server that answers every MGET, no get throws instead of
\* queueing its callback, and the callback of every get that was called is
\* eventually invoked, once
C31_EveryGetAnswered ==
  /\ [](\A g \in Gets : gets[g].pc # "threw")
  /\ \A g \in Gets :
       (gets[g].pc = "queued") ~> (gets[g].pc = "done" /\ gets[g].calls = 1)

\* the MGETs sent and not yet handled
Fetches == {i \in 1 .. Len(command_queue) : command_queue[i].cmd[1] = "MGET"}

\* C32: at most one MGET is outstanding, and fulfillRequests is either
\* waiting for that MGET's reply or scheduled with setImmediate
C32_DispatcherAlive ==
  /\ Cardinality(Fetches) <= 1
  /\ immediate = (Fetches = {})

(***************************************************************************)
(* The revision that records pool errors in the flag redisConnError: its   *)
(* get, set and handleResponse are those of the revision above, its        *)
(* connect looks at the flag first, and its reset hands cb to flushdb.     *)
(***************************************************************************)
ConnError == JSError("Error", "Redis connection error")

\* faulty variant of connectFlag: the flag is not looked at
connectAnyway(call) == Connect(call)

\* connect(cb): 'if (redisConnError) return cb(new Error(...))', which each
\* operation passes on to its own cb, else the call waits for pool.acquire
connectFlag(call) ==
  IF redisConnError THEN Callback(call, <<ConnError>>, Absent)
  ELSE Connect(call)

getFlag(o, key, cb) ==
  Issue(o, connectFlag([NoCall EXCEPT !.kind = "get", !.key = key,
                          !.cb = Completion(cb)]))

setFlag(o, key, value, options, cb) ==
  Issue(o, connectFlag([NoCall EXCEPT !.kind = "set", !.key = key,
                          !.value = value, !.options = options,
                          !.cb = Completion(cb), !.ttl = SetTtl(options)]))

resetFlag(o, cb) ==
  Issue(o, connectFlag([NoCall EXCEPT !.kind = "reset", !.cb = Completion(cb)]))

\* the reply reaches its callback: the function handleResponse returned, and
\* for reset the caller's cb itself, so that nothing releases the connection
ReplyFlag(o) ==
  /\ ops[o].pc = "reply"
  /\ Step(o, IF ops[o].kind = "reset"
             THEN Callback(ops[o], ops[o].reply.err,
                           IF ops[o].reply.err = Absent
                           THEN <<ops[o].reply.res>> ELSE Absent)
             ELSE HandleResponsePlain(ops[o], ops[o].reply))
  /\ Quiet /\ UNCHANGED <<redisConnError, coalescing, fixed, db, age>>

\* the pool emits 'error': the handler sets the flag
OnPoolErrorFlag ==
  /\ redisConnError' = TRUE
  /\ Quiet /\ UNCHANGED <<coalescing, fixed, db, pool, ops, hist, racing, age>>

\* a store of that revision
InitFlag ==
  /\ workload = "sequential"
  /\ Create({Args(Undefined, Undefined, Undefined, Undefined, Undefined, t, Absent) :
               t \in {Absent, <<MaxTtl>>}})
  /\ revision = "flag"
  /\ isCacheableValue = "default"

NextFlag ==
  \/ \E k \in Keys : getFlag("op1", k, Fn)
  \/ \E k \in Keys, v \in PlainValues : setFlag("op1", k, v, NoOptions, Fn)
  \/ resetFlag("op1", Fn)
  \/ OnPoolErrorFlag
  \/ \E c \in Conns : AcquiredPlain("op1", c)
  \/ ServerExec("op1")
  \/ ReplyFlag("op1")
  \/ Return("op1")
  \/ Tick

\* the pool hands a waiting call a connection once one is idle, the server
\* answers the command sent, and a reply that arrived reaches its callback
FairnessFlag ==
  /\ WF_vars(\E c \in Conns : AcquiredPlain("op1", c))
  /\ WF_vars(ServerExec("op1"))
  /\ WF_vars(ReplyFlag("op1"))

\* a caller of that revision that starts each call after the previous one
\* completed, on a server that answers
SpecFlag == InitFlag /\ [][NextFlag]_vars /\ FairnessFlag

\* C33: with a pool of bounded size and a server that answers every command,
\* every call that waits for a connection eventually completes, whatever
\* calls came before it and however they ended
C33_NoCallWaitsForever ==
  \A o \in Ops : (ops[o].pc = "connect") ~> (ops[o].pc = "done")

\* C39: once the pool has raised an error, the flag stays set, and every call
\* started from then on completes at once with 'Redis connection error',
\* without a connection and without a command
C39_ErrorFlagIsFinal ==
  /\ [][redisConnError => redisConnError']_vars
  /\ [][\A o \in Ops :
          redisConnError /\ ops[o].pc = "idle" /\ ops'[o].pc # "idle"
            => /\ ops'[o].pc = "done"
               /\ ops'[o].calls = 1
               /\ ops'[o].err = <<ConnError>>
               /\ ops'[o].result = Absent
               /\ ~ops'[o].acquired
               /\ ops'[o].cmds = <<>>
               /\ pool' = pool /\ db' = db]_vars

C39_Witness ==
  \E o \in Ops :
    /\ redisConnError
    /\ ops[o].kind = "get" /\ ops[o].pc = "done"
    /\ ops[o].err = <<ConnError>> /\ ~ops[o].acquired
    /\ \E c \in Conns : pool[c] = "idle"
    /\ \E k \in Keys : db[k] # NoEntry

\* C34: a call completed through handleResponse has released its connection
\* before its callback runs: in the step that calls back, the connection is
\* idle again, so a call started from inside the callback can acquire it;
\* and a get that gunzips has released before gunzip calls back
C34_ReleasedBeforeCallback ==
  /\ [](\A o \in Ops : ops[o].pc = "gunzip" => ops[o].releases = 1)
  /\ [][\A o \in Ops :
          ops[o].pc = "reply" /\ ops'[o].calls = ops[o].calls + 1
            => /\ ops'[o].releases = 1
               /\ pool'[ops[o].conn] = "idle"]_vars

C34_Witness ==
  \E o, p \in Ops :
    /\ o # p
    /\ ops[o].pc = "done" /\ ops[o].kind = "set" /\ ops[o].calls = 1
    /\ ops[o].err = Absent /\ ops[o].releases = 1
    /\ Holds(p) /\ ops[p].conn = ops[o].conn
    /\ \A c \in Conns : c # ops[o].conn => pool[c] = "busy"

\* C35: no call sends a command on a connection it has released: a call that
\* has released has no command outstanding or waiting to be answered, and no
\* command of it went out after its release - a SCAN of keys() included
C35_NoCommandAfterRelease ==
  \A o \in Ops :
    /\ ~ops[o].sentFree
    /\ ops[o].releases > 0
         => ops[o].cmds = <<>> /\ ops[o].pc \notin {"gzip", "sent", "reply"}

C35_Witness ==
  \E o \in Ops :
    /\ ops[o].kind = "keys" /\ ops[o].pc = "done"
    /\ ops[o].err # Absent /\ ops[o].steps >= 1
    /\ ops[o].releases = 1 /\ ops[o].cmds = <<>> /\ ~ops[o].sentFree

\* C36: a call made with a callback calls it exactly once under every
\* outcome: never before the call's outcome is there, once when the call is
\* complete, and never again
C36_CalledBackExactlyOnce ==
  \A o \in Ops :
    ops[o].cb = "callback" /\ ops[o].kind # "none"
      => /\ ops[o].calls <= 1
         /\ ops[o].pc = "done" => ops[o].calls = 1
         /\ ops[o].calls = 1 => ops[o].pc = "done"

C36_Witness ==
  \E o \in Ops :
    /\ ops[o].cb = "callback" /\ ops[o].kind = "set" /\ ops[o].pc = "done"
    /\ ops[o].acquired /\ ops[o].releases = 0
    /\ ops[o].err # Absent /\ ops[o].calls = 1

MaxDone == 2

\* done(done, ...args) called again on a handle that was handed back: the
\* function has no memory of the call before and releases again, whoever
\* holds the connection by now
ClientDoneAgain(o, arguments) ==
  /\ ops[o].kind = "getClient"
  /\ ops[o].pc = "done"
  /\ ops[o].acquired
  /\ ops[o].releases > 0 /\ ops[o].releases < MaxDone
  /\ Step(o, [Released(ops[o]) EXCEPT !.arguments = arguments,
                                      !.forwarded = DoneForward(arguments)])
  /\ Quiet /\ UNCHANGED <<redisConnError, coalescing, fixed, db, age>>

\* two callers: one takes the raw client and hands it back, once or again,
\* while the other asks for the time to live of a key
NextDone ==
  \/ getClient("op1", Fn)
  \/ \E o \in Slots, arguments \in DoneInputs : ClientDone(o, arguments)
  \/ \E o \in Slots, arguments \in DoneInputs : ClientDoneAgain(o, arguments)
  \/ \E k \in TtlInputs : ttl("op2", k, Fn)
  \/ \E o \in Slots, c \in Conns : Acquired(o, c)
  \/ \E o \in Slots : ServerExec(o)
  \/ \E o \in Slots : Reply(o)
  \/ \E o \in Slots : Return(o)

SpecDone == InitConcurrent /\ [][NextDone]_vars

\* C38: however often the done function of one getClient handle is called,
\* the connection of the handle is released to the pool once
C38_DoneReleasesOnce ==
  \A o \in Ops : ops[o].kind = "getClient" => ops[o].releases <= 1

=============================================================================
